---- MODULE Spec2Model ----
(***************************************************************************)
(* Loan profitability simulator: the reactive engine of the Svelte pages.  *)
(*                                                                         *)
(*   full      src/simulator/src/routes/+page.svelte, lines 807-1292       *)
(*             (deferral, insurance, inflation, presets, share link)       *)
(*   deferral  src/simulator/src/routes/+page.svelte, lines 1-305          *)
(*             (the same engine as src/unnamed/part_000)                   *)
(*   simple    src/unnamed/part_001, lines 551-733 (no deferral)           *)
(*                                                                         *)
(* A JavaScript number is modelled by an exact rational, so that the       *)
(* identities of the amortization formula are decided exactly.  A year has *)
(* twelve months as in the source; the numbers of a run of a few years do  *)
(* not fit TLC's 32-bit integers, so a rational is kept as a natural       *)
(* numerator (little-endian limbs), a sign, and a denominator              *)
(* 2^e[1] * 3^e[2] * 5^e[3] * c.                                           *)
(***************************************************************************)
EXTENDS Integers, Sequences, FiniteSets, TLC

----------------------------------------------------------------------------
(* Natural numbers of any size: little-endian limbs, <<>> is 0.            *)

Base == 10^3

Max2(x, y) == IF x >= y THEN x ELSE y
Min2(x, y) == IF x <= y THEN x ELSE y
Monus(x, y) == IF x >= y THEN x - y ELSE 0

At(a, i) == IF 1 <= i /\ i <= Len(a) THEN a[i] ELSE 0

Sign(x) == IF x > 0 THEN 1 ELSE IF x < 0 THEN -1 ELSE 0

\* the sequence a function on 1..n is
BNSeq(f) == f \o <<>>

\* how far below the top of a the most significant limb that is not 0 is
\* (Len(a) if there is none)
BNZeros(a) ==
    CHOOSE d \in 0..Len(a) :
        /\ d = Len(a) \/ a[Len(a) - d] # 0
        /\ \A i \in 0..(d - 1) : a[Len(a) - i] = 0
BNTrim(a) == SubSeq(a, 1, Len(a) - BNZeros(a))

RECURSIVE BNLimbs(_)
\* the limbs of an integer k >= 0
BNLimbs(k) == IF k = 0 THEN <<>> ELSE <<k % Base>> \o BNLimbs(k \div Base)

\* the digit of weight Base^j of a column t >= 0
Digit(t, j) == (t \div Base^j) % Base
\* columns below Base^4 to columns below 4 * Base: every column hands its
\* higher digits to the three columns above
BNSpread(cols) ==
    [m \in 1..(Len(cols) + 3) |->
        Digit(At(cols, m), 0) + Digit(At(cols, m - 1), 1)
            + Digit(At(cols, m - 2), 2) + Digit(At(cols, m - 3), 3)]
\* columns below 4 * Base to columns of at most Base + 2
BNReduce(cols) ==
    [m \in 1..(Len(cols) + 1) |->
        (At(cols, m) % Base) + (At(cols, m - 1) \div Base)]
\* how far below column m the nearest column that is not q is (m if there
\* is none)
BNNear(v, m, q) ==
    CHOOSE d \in 1..m :
        /\ d = m \/ v[m - d] # q
        /\ \A i \in 1..(d - 1) : v[m - i] = q
\* what the column at distance d below m carries into column m when the
\* columns in between pass a carry on: columns of at most Base + 2
BNCarryFrom(v, m, d) == IF d < m /\ v[m - d] >= Base THEN 1 ELSE 0
BNCarryIn(v, m) == BNCarryFrom(v, m, BNNear(v, m, Base - 1))
BNRipple(v) == [m \in 1..Len(v) |-> (v[m] + BNCarryIn(v, m)) % Base]
\* the three passes, each on the sequence the pass before it has made
BNRippled(v) == IF v = <<>> THEN v ELSE BNTrim(BNSeq(BNRipple(v)))
BNReduced(cols) == IF cols = <<>> THEN cols ELSE BNRippled(BNSeq(BNReduce(cols)))
BNSpreaded(cols) == IF cols = <<>> THEN cols ELSE BNReduced(BNSeq(BNSpread(cols)))
\* the number whose columns (limbs not yet below Base) are cols
BNCarry(cols) == BNSpreaded(BNSeq(cols))

\* the same for a borrow: columns in -Base + 1 .. Base - 1
BNBorrowFrom(v, m, d) == IF d < m /\ v[m - d] < 0 THEN 1 ELSE 0
BNBorrowIn(v, m) == BNBorrowFrom(v, m, BNNear(v, m, 0))
BNSettle(v) == [m \in 1..Len(v) |-> (v[m] - BNBorrowIn(v, m) + Base) % Base]
\* the number whose columns are the differences cols of a larger and a
\* smaller number
BNSettled(v) == IF v = <<>> THEN v ELSE BNTrim(BNSeq(BNSettle(v)))
BNBorrow(cols) == BNSettled(BNSeq(cols))

BNOfInt(k) == BNLimbs(k)
BNAdd(a, b) ==
    IF a = <<>> THEN b
    ELSE IF b = <<>> THEN a
    ELSE BNReduced(BNSeq([i \in 1..Max2(Len(a), Len(b)) |-> At(a, i) + At(b, i)]))
\* a >= b
BNSub(a, b) == IF b = <<>> THEN a ELSE BNBorrow([i \in 1..Len(a) |-> a[i] - At(b, i)])
BNMulSmall(a, k) ==
    IF a = <<>> \/ k = 1 THEN a ELSE BNCarry([i \in 1..Len(a) |-> a[i] * k])

RECURSIVE BNColSum(_, _, _, _, _)
\* the sum of a[i] * b[k + 1 - i] for i in lo..hi, by halves
BNColSum(a, b, k, lo, hi) ==
    IF lo > hi THEN 0
    ELSE IF lo = hi THEN a[lo] * b[k + 1 - lo]
    ELSE BNColSum(a, b, k, lo, (lo + hi) \div 2)
             + BNColSum(a, b, k, (lo + hi) \div 2 + 1, hi)

BNMul(a, b) ==
    IF a = <<>> \/ b = <<>> THEN <<>>
    ELSE IF Len(b) = 1 THEN BNMulSmall(a, b[1])
    ELSE IF Len(a) = 1 THEN BNMulSmall(b, a[1])
    ELSE BNCarry([k \in 1..(Len(a) + Len(b) - 1) |->
                    BNColSum(a, b, k, Max2(1, k + 1 - Len(b)), Min2(Len(a), k))])

\* how far below the top the most significant limbs that differ are (Len(a)
\* if there are none), for numbers of the same length
BNSame(a, b) ==
    CHOOSE d \in 0..Len(a) :
        /\ d = Len(a) \/ a[Len(a) - d] # b[Len(a) - d]
        /\ \A i \in 0..(d - 1) : a[Len(a) - i] = b[Len(a) - i]
BNCmpAt(a, b, d) ==
    IF d = Len(a) THEN 0 ELSE Sign(a[Len(a) - d] - b[Len(a) - d])
BNCmp(a, b) ==
    IF Len(a) > Len(b) THEN 1
    ELSE IF Len(a) < Len(b) THEN -1
    ELSE BNCmpAt(a, b, BNSame(a, b))

RECURSIVE BNScale(_, _)
\* a * 2^x[1] * 3^x[2] * 5^x[3], by factors that fit a limb product
BNScale(a, x) ==
    IF a = <<>> THEN a
    ELSE IF x[1] > 0
    THEN BNScale(BNMulSmall(a, 2^Min2(x[1], 20)), <<Monus(x[1], 20), x[2], x[3]>>)
    ELSE IF x[2] > 0
    THEN BNScale(BNMulSmall(a, 3^Min2(x[2], 12)), <<0, Monus(x[2], 12), x[3]>>)
    ELSE IF x[3] > 0
    THEN BNScale(BNMulSmall(a, 5^Min2(x[3], 8)), <<0, 0, Monus(x[3], 8)>>)
    ELSE a

RECURSIVE BNToInt(_, _)
\* the value of the limbs from i on (for numbers that fit an integer)
BNToInt(a, i) == IF i > Len(a) THEN 0 ELSE a[i] + Base * BNToInt(a, i + 1)

RECURSIVE Strip(_, _)
\* <<exponent of p in k, k with the factors p removed>>, k > 0
Strip(k, p) ==
    IF k % p = 0
    THEN LET s == Strip(k \div p, p) IN <<s[1] + 1, s[2]>>
    ELSE <<0, k>>

----------------------------------------------------------------------------
(* Rationals: sg * n / (2^e[1] * 3^e[2] * 5^e[3] * c), c > 0.  The         *)
(* representation is not reduced; 0 is always [sg |-> 0, n |-> <<>>, ...], *)
(* and two rationals are compared by REq, RLe, RLt.                        *)

One == <<1>>
Zero3 == <<0, 0, 0>>
EMax(x, y) == <<Max2(x[1], y[1]), Max2(x[2], y[2]), Max2(x[3], y[3])>>
EAdd(x, y) == <<x[1] + y[1], x[2] + y[2], x[3] + y[3]>>
EMonus(x, y) == <<Monus(x[1], y[1]), Monus(x[2], y[2]), Monus(x[3], y[3])>>

RZero == [sg |-> 0, n |-> <<>>, e |-> Zero3, c |-> One]
ROne == [sg |-> 1, n |-> One, e |-> Zero3, c |-> One]
Rat(sg, n, e, c) ==
    IF n = <<>> THEN RZero ELSE [sg |-> sg, n |-> n, e |-> e, c |-> c]

RInt(k) ==
    Rat(IF k < 0 THEN -1 ELSE 1, BNOfInt(IF k < 0 THEN -k ELSE k), Zero3, One)
RNeg(a) == [a EXCEPT !.sg = -a.sg]

\* the numerator of a over the denominator a and b share: exponents e,
\* core a.c if the cores are equal and a.c * b.c if not
Aligned(a, b, e) ==
    BNScale(IF a.c = b.c THEN a.n ELSE BNMul(a.n, b.c), EMonus(e, a.e))

\* sa * an + sb * bn over the denominator (e, c); cmp compares an with bn
RSum(sa, an, sb, bn, cmp, e, c) ==
    IF sa = sb THEN Rat(sa, BNAdd(an, bn), e, c)
    ELSE IF cmp = 0 THEN RZero
    ELSE IF cmp > 0 THEN Rat(sa, BNSub(an, bn), e, c)
    ELSE Rat(sb, BNSub(bn, an), e, c)
RSumOver(sa, an, sb, bn, e, c) == RSum(sa, an, sb, bn, BNCmp(an, bn), e, c)
RAddOver(a, b, e) ==
    RSumOver(a.sg, Aligned(a, b, e), b.sg, Aligned(b, a, e), e,
             IF a.c = b.c THEN a.c ELSE BNMul(a.c, b.c))
\* a + b
RAdd(a, b) ==
    IF a.sg = 0 THEN b
    ELSE IF b.sg = 0 THEN a
    ELSE RAddOver(a, b, EMax(a.e, b.e))
\* a - b
RSub(a, b) == RAdd(a, RNeg(b))
\* a * b
RMul(a, b) ==
    IF a.sg = 0 \/ b.sg = 0 THEN RZero
    ELSE Rat(a.sg * b.sg, BNMul(a.n, b.n), EAdd(a.e, b.e), BNMul(a.c, b.c))
\* a / (sg * 2^s2[1] * 3^s3[1] * 5^s5[1] * s5[2]) for a small divisor
RDivSmall(a, sg, s2, s3, s5) ==
    Rat(a.sg * sg, a.n, EAdd(a.e, <<s2[1], s3[1], s5[1]>>),
        BNMul(a.c, BNOfInt(s5[2])))
RDivBy3(a, sg, s2, s3) == RDivSmall(a, sg, s2, s3, Strip(s3[2], 5))
RDivBy2(a, sg, s2) == RDivBy3(a, sg, s2, Strip(s2[2], 3))
\* a / b, b # 0
RDiv(a, b) ==
    IF a.sg = 0 THEN a
    ELSE IF Len(b.n) = 1 /\ b.e = Zero3 /\ b.c = One
    THEN RDivBy2(a, b.sg, Strip(b.n[1], 2))
    ELSE Rat(a.sg * b.sg,
             BNScale(BNMul(a.n, b.c), EMonus(b.e, a.e)),
             EMonus(a.e, b.e),
             BNMul(a.c, b.n))
RCmpOver(a, b, e) == BNCmp(Aligned(a, b, e), Aligned(b, a, e))
\* the sign of a - b
RCmp(a, b) ==
    IF a.sg # b.sg THEN Sign(a.sg - b.sg)
    ELSE IF a.sg = 0 THEN 0
    ELSE a.sg * RCmpOver(a, b, EMax(a.e, b.e))
REq(a, b) == RCmp(a, b) = 0
RLe(a, b) == RCmp(a, b) <= 0
RLt(a, b) == RCmp(a, b) < 0
\* Math.max(a, b), Math.min(a, b)
MathMax(a, b) == IF RLt(a, b) THEN b ELSE a
MathMin(a, b) == IF RLt(b, a) THEN b ELSE a
Square(a) == RMul(a, a)
RECURSIVE MathPow(_, _)
\* Math.pow(a, n) for an integer n >= 0
MathPow(a, n) ==
    IF n = 0 THEN ROne
    ELSE IF n % 2 = 0 THEN Square(MathPow(a, n \div 2))
    ELSE RMul(Square(MathPow(a, n \div 2)), a)
\* Math.ceil(a), for a rational whose numerator and denominator fit an integer
MathCeil(a) ==
    LET d == 2^(a.e[1]) * 3^(a.e[2]) * 5^(a.e[3]) * BNToInt(a.c, 1)
        n == a.sg * BNToInt(a.n, 1)
    IN  -((-n) \div d)
\* a decimal literal: k / 10
Tenths(k) == RDiv(RInt(k), RInt(10))

----------------------------------------------------------------------------
(* The state of a page.                                                    *)

VARIABLES
    variant,        \* "full", "deferral" or "simple": which page runs
    params,         \* the input values (the page's let variables)
    pc,             \* "params", "loop", "done": the position of the recomputation
    calc,           \* the reactive amortization values
    yearlyData,     \* the YearlyData[] under construction, then the result
    year, month,    \* the loop counters of yearlyData
    totalMonthsElapsed,
    investmentValue, loanBalance, totalPaid, totalBorrowingCost,
    cumulativeInflationFactor,
    breakEvenYear, breakEvenYearReal,
    edits,          \* the number of input edits so far
    shared,         \* null, or the params and the yearlyData of the page whose
                    \* share link this page was opened with
    scenarioYearlyData,             \* the yearly values of the three scenarios
    bestCaseValue, worstCaseValue   \* the final values at the two outer rates

locals == <<year, month, totalMonthsElapsed, investmentValue, loanBalance,
            totalPaid, totalBorrowingCost, cumulativeInflationFactor>>
results == <<calc, yearlyData, breakEvenYear, breakEvenYearReal>>
scenarios == <<scenarioYearlyData, bestCaseValue, worstCaseValue>>
vars == <<variant, params, pc, locals, results, edits, shared, scenarios>>

MonthsPerYear == 12

\* null and a value that is not null
Null == <<>>
Some(v) == <<v>>

----------------------------------------------------------------------------
(* Full model: the inputs and their clamps.                                *)

DEFAULTS ==
    [loanAmount |-> RInt(200000), interestRate |-> Tenths(45),
     loanTermYears |-> RInt(30), downPayment |-> RInt(40000),
     deferralMonths |-> RInt(12), deferralType |-> "complete",
     insuranceCost |-> RInt(30), investmentRate |-> RInt(7),
     investmentVolatility |-> RInt(3), additionalYears |-> RInt(10),
     inflationRate |-> Tenths(25)]

\* Math.max(lo, Math.min(hi, x))
Clamp(lo, hi, x) == MathMax(lo, MathMin(hi, x))

\* the clamp statements of the other inputs, given the clamped loanAmount
\* and loanTermYears
FullClampRest(p, la, ty) ==
    [loanAmount |-> la,
     downPayment |-> Clamp(RZero, la, p.downPayment),
     interestRate |-> Clamp(RZero, RInt(20), p.interestRate),
     loanTermYears |-> ty,
     deferralMonths |->
         Clamp(RZero, RSub(RMul(ty, RInt(MonthsPerYear)), ROne), p.deferralMonths),
     deferralType |-> p.deferralType,
     insuranceCost |-> Clamp(RZero, RInt(10000), p.insuranceCost),
     investmentRate |-> Clamp(RZero, RInt(30), p.investmentRate),
     investmentVolatility |-> Clamp(RZero, RInt(100), p.investmentVolatility),
     additionalYears |-> Clamp(RZero, RInt(30), p.additionalYears),
     inflationRate |-> Clamp(RZero, RInt(20), p.inflationRate)]

\* the clamps with a down payment held below the largest loan amount, not
\* below this loan amount
FullClampDownPaymentAlone(p) ==
    [FullClampRest(p, Clamp(RZero, RInt(10000000), p.loanAmount),
                   Clamp(ROne, RInt(40), p.loanTermYears))
        EXCEPT !.downPayment = Clamp(RZero, RInt(10000000), p.downPayment)]
\* the clamps with a deferral that may fill the whole term
FullClampDeferralToTerm(p) ==
    [FullClampRest(p, Clamp(RZero, RInt(10000000), p.loanAmount),
                   Clamp(ROne, RInt(40), p.loanTermYears))
        EXCEPT !.deferralMonths =
            Clamp(RZero,
                  RMul(Clamp(ROne, RInt(40), p.loanTermYears), RInt(MonthsPerYear)),
                  p.deferralMonths)]

\* the clamp statements, in the order the reactive flush runs them
FullClamp(p) ==
    FullClampRest(p, Clamp(RZero, RInt(10000000), p.loanAmount),
                  Clamp(ROne, RInt(40), p.loanTermYears))

\* a principal that forgets the down payment
LoanAmountOnly(p) == p.loanAmount
\* an interest rate that is not divided by the months of the year
YearlyRate(p) == RDiv(p.interestRate, RInt(100))
\* bands that end at 10 and 20 included
RiskLevelUpTo(v) ==
    IF RLe(v, RInt(10)) THEN "Low"
    ELSE IF RLe(v, RInt(20)) THEN "Medium" ELSE "High"
\* the reactive values that depend on the inputs alone
RiskLevel(v) ==
    IF RLt(v, RInt(10)) THEN "Low"
    ELSE IF RLt(v, RInt(20)) THEN "Medium" ELSE "High"
RiskColor(v) ==
    IF RLt(v, RInt(10)) THEN "text-green-600"
    ELSE IF RLt(v, RInt(20)) THEN "text-yellow-600" ELSE "text-red-600"
Principal(p) == RSub(p.loanAmount, p.downPayment)
MonthlyRate(p) == RDiv(RDiv(p.interestRate, RInt(100)), RInt(MonthsPerYear))
\* the term taken for a number of months
TermInYears(p) == p.loanTermYears
FullTotalLoanMonths(p) == RMul(p.loanTermYears, RInt(MonthsPerYear))
FullNumberOfPayments(p) ==
    MathMax(ROne, RSub(FullTotalLoanMonths(p), p.deferralMonths))
FullAnalysisYears(p) == RAdd(p.loanTermYears, p.additionalYears)
TotalLoanYears(totalLoanMonths) ==
    MathCeil(RDiv(totalLoanMonths, RInt(MonthsPerYear)))

----------------------------------------------------------------------------
(* Amortization.                                                           *)

RECURSIVE Capitalize(_, _, _)
\* balance *= (1 + monthlyRate), months times; the months are taken by
\* halves, one after the other
Capitalize(balance, monthlyRate, months) ==
    IF months = 0 \/ balance.sg = 0 THEN balance
    ELSE IF months = 1 THEN RMul(balance, RAdd(ROne, monthlyRate))
    ELSE Capitalize(Capitalize(balance, monthlyRate, months \div 2),
                    monthlyRate, months - months \div 2)

\* a deferral that capitalizes nothing
NoCapitalization(p) == Principal(p)
\* for (let month = 0; month < deferralMonths; month++) runs once for each
\* whole number below deferralMonths
PrincipalAfterDeferral(p) ==
    IF p.deferralType = "complete"
    THEN Capitalize(Principal(p), MonthlyRate(p), MathCeil(p.deferralMonths))
    ELSE Principal(p)

DeferralInterestPaid(p) ==
    IF p.deferralType = "partial"
    THEN RMul(RMul(Principal(p), MonthlyRate(p)), p.deferralMonths)
    ELSE RZero

\* a payment of nothing
NoAnnuity(principalAfterDeferral, monthlyRate, pow) == RZero
\* (principalAfterDeferral * (monthlyRate * pow)) / (pow - 1)
Annuity(principalAfterDeferral, monthlyRate, pow) ==
    RDiv(RMul(principalAfterDeferral, RMul(monthlyRate, pow)), RSub(pow, ROne))

\* the monthlyPayment statement; numberOfPayments is an integer here
MonthlyPayment(principalAfterDeferral, monthlyRate, numberOfPayments) ==
    IF RLt(RZero, principalAfterDeferral) /\ RLt(RZero, monthlyRate)
    THEN Annuity(principalAfterDeferral, monthlyRate,
                 MathPow(RAdd(ROne, monthlyRate), MathCeil(numberOfPayments)))
    ELSE RZero

\* the statements that follow monthlyPayment and totalPayment
FullTotals(p, c, tp) ==
    [c EXCEPT !.totalPayment = tp,
              !.totalInterest = RAdd(RSub(tp, c.principal), c.deferralInterestPaid),
              !.totalCost = RAdd(RAdd(RAdd(tp, p.downPayment), c.deferralInterestPaid),
                                 c.totalInsuranceCost)]
Totals(p, c, tp) ==
    [c EXCEPT !.totalPayment = tp,
              !.totalInterest = RSub(tp, c.principal),
              !.totalCost = RAdd(tp, p.downPayment)]
\* monthlyPayment, from the values before it
WithPayment(c) ==
    [c EXCEPT !.monthlyPayment =
        MonthlyPayment(c.principalAfterDeferral, c.monthlyRate, c.numberOfPayments)]
TotalPayment(c) == RMul(c.monthlyPayment, c.numberOfPayments)

\* the values that precede monthlyPayment
FullBase(p) ==
    [principal |-> Principal(p),
     monthlyRate |-> MonthlyRate(p),
     totalLoanMonths |-> FullTotalLoanMonths(p),
     numberOfPayments |-> FullNumberOfPayments(p),
     analysisYears |-> FullAnalysisYears(p),
     principalAfterDeferral |-> PrincipalAfterDeferral(p),
     deferralInterestPaid |-> DeferralInterestPaid(p),
     monthlyPayment |-> RZero,
     totalPayment |-> RZero,
     totalInterest |-> RZero,
     totalInsuranceCost |-> RMul(p.insuranceCost, FullTotalLoanMonths(p)),
     totalCost |-> RZero,
     riskLevel |-> RiskLevel(p.investmentVolatility),
     riskColor |-> RiskColor(p.investmentVolatility)]
FullPaid(p, c) == FullTotals(p, c, TotalPayment(c))
FullCalc(p) == FullPaid(p, WithPayment(FullBase(p)))

\* the deferral page: the deferral months come on top of the loan term
DeferralClampRest(p, la, ty) ==
    [loanAmount |-> la,
     downPayment |-> Clamp(RZero, la, p.downPayment),
     interestRate |-> Clamp(RZero, RInt(20), p.interestRate),
     loanTermYears |-> ty,
     deferralMonths |-> Clamp(RZero, RInt(60), p.deferralMonths),
     deferralType |-> p.deferralType,
     investmentRate |-> Clamp(RZero, RInt(30), p.investmentRate),
     investmentVolatility |-> Clamp(RZero, RInt(100), p.investmentVolatility),
     analysisYears |-> MathMax(ty, MathMin(RInt(60), p.analysisYears))]
DeferralClamp(p) ==
    DeferralClampRest(p, Clamp(RZero, RInt(10000000), p.loanAmount),
                      Clamp(ROne, RInt(40), p.loanTermYears))

DeferralBase(p) ==
    [principal |-> Principal(p),
     monthlyRate |-> MonthlyRate(p),
     totalLoanMonths |->
         RAdd(p.deferralMonths, RMul(p.loanTermYears, RInt(MonthsPerYear))),
     numberOfPayments |-> RMul(p.loanTermYears, RInt(MonthsPerYear)),
     analysisYears |-> p.analysisYears,
     principalAfterDeferral |-> PrincipalAfterDeferral(p),
     deferralInterestPaid |-> DeferralInterestPaid(p),
     monthlyPayment |-> RZero,
     totalPayment |-> RZero,
     totalInterest |-> RZero,
     totalInsuranceCost |-> RZero,
     totalCost |-> RZero,
     riskLevel |-> RiskLevel(p.investmentVolatility),
     riskColor |-> RiskColor(p.investmentVolatility)]
Paid(p, c) == Totals(p, c, TotalPayment(c))
DeferralCalc(p) == Paid(p, WithPayment(DeferralBase(p)))

\* the simple page: no deferral, no clamps
SimpleBase(p) ==
    [principal |-> Principal(p),
     monthlyRate |-> MonthlyRate(p),
     totalLoanMonths |-> RMul(p.loanTermYears, RInt(MonthsPerYear)),
     numberOfPayments |-> RMul(p.loanTermYears, RInt(MonthsPerYear)),
     analysisYears |-> p.analysisYears,
     principalAfterDeferral |-> Principal(p),
     deferralInterestPaid |-> RZero,
     monthlyPayment |-> RZero,
     totalPayment |-> RZero,
     totalInterest |-> RZero,
     totalInsuranceCost |-> RZero,
     totalCost |-> RZero,
     riskLevel |-> RiskLevel(p.investmentVolatility),
     riskColor |-> RiskColor(p.investmentVolatility)]
SimpleCalc(p) == Paid(p, WithPayment(SimpleBase(p)))

\* a monthly rate of the opposite sign
MonthlyLoss(rate) == RNeg(RDiv(RDiv(rate, RInt(100)), RInt(MonthsPerYear)))
\* rate / 100 / 12
MonthlyOf(rate) == RDiv(RDiv(rate, RInt(100)), RInt(MonthsPerYear))

----------------------------------------------------------------------------
(* The recomputation that follows the clamps: the amortization values,     *)
(* then the yearlyData loop (one step per month, one per record), then the *)
(* metrics read off the finished array.                                    *)

CalcOf(v, p) ==
    IF v = "full" THEN FullCalc(p)
    ELSE IF v = "deferral" THEN DeferralCalc(p)
    ELSE SimpleCalc(p)

\* a year-0 record whose net position counts nothing invested
YearZeroInDebt(principal, deferralMonths) ==
    [year |-> 0,
     investmentValue |-> principal, investmentValueReal |-> principal,
     interestEarned |-> RZero, interestEarnedReal |-> RZero,
     loanBalance |-> principal,
     totalPaid |-> RZero, totalPaidReal |-> RZero,
     totalBorrowingCost |-> RZero, totalBorrowingCostReal |-> RZero,
     netPosition |-> RZero, netPositionReal |-> RZero,
     isLoanActive |-> TRUE,
     isDeferralPeriod |-> RLt(RZero, deferralMonths)]

\* the year-0 record of the full model
YearZero(principal, deferralMonths) ==
    [year |-> 0,
     investmentValue |-> principal, investmentValueReal |-> principal,
     interestEarned |-> RZero, interestEarnedReal |-> RZero,
     loanBalance |-> principal,
     totalPaid |-> RZero, totalPaidReal |-> RZero,
     totalBorrowingCost |-> RZero, totalBorrowingCostReal |-> RZero,
     netPosition |-> principal, netPositionReal |-> principal,
     isLoanActive |-> TRUE,
     isDeferralPeriod |-> RLt(RZero, deferralMonths)]

\* a loop that stops one year short: year < analysisYears
LoopTestStrict(y, analysisYears) ==
    IF RLt(RInt(y), analysisYears) THEN "loop" ELSE "find"

\* the test of for (let year = 1; year <= analysisYears; year++)
LoopTest(y, analysisYears) ==
    IF RLe(RInt(y), analysisYears) THEN "loop" ELSE "find"

\* the locals of the yearlyData statement before its loop, given the
\* amortization values c
StartLoop(c) ==
    /\ calc' = c
    /\ loanBalance' = c.principal
    /\ investmentValue' =
           IF variant = "full" THEN c.principal ELSE params.downPayment
    /\ totalPaid' = IF variant = "full" THEN RZero ELSE params.downPayment
    /\ yearlyData' =
           IF variant = "full"
           THEN <<YearZero(c.principal, params.deferralMonths)>>
           ELSE <<>>
    /\ pc' = LoopTest(1, c.analysisYears)

Amortize ==
    /\ pc = "params"
    /\ StartLoop(CalcOf(variant, params))
    /\ totalBorrowingCost' = RZero
    /\ totalMonthsElapsed' = 0
    /\ cumulativeInflationFactor' = ROne
    /\ year' = 1
    /\ month' = 0
    /\ UNCHANGED <<variant, params, breakEvenYear, breakEvenYearReal, edits, shared, scenarios>>

\* a loan whose months are all active
AlwaysActiveMonth(m) == TRUE
\* the three flags of month m of the full model's loop
IsDeferralMonth(m) == RLe(RInt(m), params.deferralMonths)
IsRepaymentMonth(m) ==
    /\ RLt(params.deferralMonths, RInt(m))
    /\ RLe(RInt(m), calc.totalLoanMonths)
IsLoanActiveMonth(m) == RLe(RInt(m), calc.totalLoanMonths)

\* one iteration of for (let month = 0; month < 12; month++), full model
MonthStepFull ==
    /\ pc = "loop" /\ variant = "full" /\ month < MonthsPerYear
    /\ LET tme == totalMonthsElapsed + 1
           isDeferralMonth == IsDeferralMonth(tme)
           isRepaymentMonth == IsRepaymentMonth(tme)
           isLoanActiveMonth == IsLoanActiveMonth(tme)
           paid == IF isLoanActiveMonth
                   THEN RAdd(totalPaid, params.insuranceCost) ELSE totalPaid
           cost == IF isLoanActiveMonth
                   THEN RAdd(totalBorrowingCost, params.insuranceCost)
                   ELSE totalBorrowingCost
           interest == RMul(loanBalance, calc.monthlyRate)
           principalPayment == RSub(calc.monthlyPayment, interest)
       IN  /\ totalMonthsElapsed' = tme
           /\ cumulativeInflationFactor' =
                  RMul(cumulativeInflationFactor,
                       RAdd(ROne, MonthlyOf(params.inflationRate)))
           /\ investmentValue' =
                  RMul(investmentValue, RAdd(ROne, MonthlyOf(params.investmentRate)))
           /\ IF isDeferralMonth
              THEN IF params.deferralType = "complete"
                   THEN /\ loanBalance' = RMul(loanBalance, RAdd(ROne, calc.monthlyRate))
                        /\ totalPaid' = paid
                        /\ totalBorrowingCost' = cost
                   ELSE /\ loanBalance' = loanBalance
                        /\ totalPaid' = RAdd(paid, interest)
                        /\ totalBorrowingCost' = RAdd(cost, interest)
              ELSE IF isRepaymentMonth
                   THEN /\ totalPaid' = RAdd(paid, calc.monthlyPayment)
                        /\ loanBalance' = MathMax(RZero, RSub(loanBalance, principalPayment))
                        /\ totalBorrowingCost' = RAdd(cost, interest)
                   ELSE /\ loanBalance' = loanBalance
                        /\ totalPaid' = paid
                        /\ totalBorrowingCost' = cost
    /\ month' = month + 1
    /\ UNCHANGED <<variant, params, pc, year, results, edits, shared, scenarios>>

\* the record pushed at the end of a year, full model
FullRecord ==
    LET investmentValueReal == RDiv(investmentValue, cumulativeInflationFactor)
        totalPaidReal == RDiv(totalPaid, cumulativeInflationFactor)
        isLoanActive == RLe(RInt(totalMonthsElapsed), calc.totalLoanMonths)
    IN  [year |-> year,
         investmentValue |-> investmentValue,
         investmentValueReal |-> investmentValueReal,
         interestEarned |-> RSub(investmentValue, calc.principal),
         interestEarnedReal |-> RSub(investmentValueReal, calc.principal),
         loanBalance |-> IF isLoanActive THEN loanBalance ELSE RZero,
         totalPaid |-> totalPaid,
         totalPaidReal |-> totalPaidReal,
         totalBorrowingCost |-> totalBorrowingCost,
         totalBorrowingCostReal |-> RDiv(totalBorrowingCost, cumulativeInflationFactor),
         netPosition |-> RSub(investmentValue, totalPaid),
         netPositionReal |-> RSub(investmentValueReal, totalPaidReal),
         isLoanActive |-> isLoanActive,
         isDeferralPeriod |-> RLe(RInt(totalMonthsElapsed), params.deferralMonths)]

PushRecordFull ==
    /\ pc = "loop" /\ variant = "full" /\ month = MonthsPerYear
    /\ yearlyData' = Append(yearlyData, FullRecord)
    /\ year' = year + 1
    /\ month' = 0
    /\ pc' = LoopTest(year + 1, calc.analysisYears)
    /\ UNCHANGED <<variant, params, calc, totalMonthsElapsed, investmentValue,
                   loanBalance, totalPaid, totalBorrowingCost,
                   cumulativeInflationFactor, breakEvenYear, breakEvenYearReal, edits, shared, scenarios>>

\* one iteration of the month loop, deferral page
MonthStepDeferral ==
    /\ pc = "loop" /\ variant = "deferral" /\ month < MonthsPerYear
    /\ LET tme == totalMonthsElapsed + 1
           isDeferralMonth == RLe(RInt(tme), params.deferralMonths)
           isRepaymentMonth == /\ RLt(params.deferralMonths, RInt(tme))
                               /\ RLe(RInt(tme), calc.totalLoanMonths)
           grown == RMul(investmentValue, RAdd(ROne, MonthlyOf(params.investmentRate)))
           interest == RMul(loanBalance, calc.monthlyRate)
           principalPayment == RSub(calc.monthlyPayment, interest)
       IN  /\ totalMonthsElapsed' = tme
           /\ IF isDeferralMonth
              THEN IF params.deferralType = "complete"
                   THEN /\ loanBalance' = RMul(loanBalance, RAdd(ROne, calc.monthlyRate))
                        /\ investmentValue' = grown
                        /\ totalPaid' = totalPaid
                   ELSE /\ loanBalance' = loanBalance
                        /\ investmentValue' = RAdd(grown, interest)
                        /\ totalPaid' = RAdd(totalPaid, interest)
              ELSE IF isRepaymentMonth
                   THEN /\ investmentValue' = RAdd(grown, calc.monthlyPayment)
                        /\ totalPaid' = RAdd(totalPaid, calc.monthlyPayment)
                        /\ loanBalance' = MathMax(RZero, RSub(loanBalance, principalPayment))
                   ELSE /\ investmentValue' = grown
                        /\ totalPaid' = totalPaid
                        /\ loanBalance' = loanBalance
    /\ month' = month + 1
    /\ UNCHANGED <<variant, params, pc, year, totalBorrowingCost,
                   cumulativeInflationFactor, results, edits, shared, scenarios>>

DeferralRecord ==
    LET isLoanActive == RLe(RInt(totalMonthsElapsed), calc.totalLoanMonths)
    IN  [year |-> year,
         investmentValue |-> investmentValue,
         loanBalance |-> IF isLoanActive THEN loanBalance ELSE RZero,
         totalPaid |-> totalPaid,
         netPosition |-> RSub(investmentValue, totalPaid),
         isLoanActive |-> isLoanActive,
         isDeferralPeriod |-> RLe(RInt(totalMonthsElapsed), params.deferralMonths)]

PushRecordDeferral ==
    /\ pc = "loop" /\ variant = "deferral" /\ month = MonthsPerYear
    /\ yearlyData' = Append(yearlyData, DeferralRecord)
    /\ year' = year + 1
    /\ month' = 0
    /\ pc' = LoopTest(year + 1, calc.analysisYears)
    /\ UNCHANGED <<variant, params, calc, totalMonthsElapsed, investmentValue,
                   loanBalance, totalPaid, totalBorrowingCost,
                   cumulativeInflationFactor, breakEvenYear, breakEvenYearReal, edits, shared, scenarios>>

\* one iteration of the month loop, simple page
MonthStepSimple ==
    /\ pc = "loop" /\ variant = "simple" /\ month < MonthsPerYear
    /\ LET isLoanActive == RLe(RInt(year), params.loanTermYears)
           grown == RMul(investmentValue, RAdd(ROne, MonthlyOf(params.investmentRate)))
           interest == RMul(loanBalance, calc.monthlyRate)
           principalPayment == RSub(calc.monthlyPayment, interest)
       IN  IF isLoanActive
           THEN /\ investmentValue' = RAdd(grown, calc.monthlyPayment)
                /\ totalPaid' = RAdd(totalPaid, calc.monthlyPayment)
                /\ loanBalance' = MathMax(RZero, RSub(loanBalance, principalPayment))
           ELSE /\ investmentValue' = grown
                /\ totalPaid' = totalPaid
                /\ loanBalance' = loanBalance
    /\ totalMonthsElapsed' = totalMonthsElapsed + 1
    /\ month' = month + 1
    /\ UNCHANGED <<variant, params, pc, year, totalBorrowingCost,
                   cumulativeInflationFactor, results, edits, shared, scenarios>>

SimpleRecord ==
    LET isLoanActive == RLe(RInt(year), params.loanTermYears)
    IN  [year |-> year,
         investmentValue |-> investmentValue,
         loanBalance |-> IF isLoanActive THEN loanBalance ELSE RZero,
         totalPaid |-> totalPaid,
         netPosition |-> RSub(investmentValue, totalPaid),
         isLoanActive |-> isLoanActive]

PushRecordSimple ==
    /\ pc = "loop" /\ variant = "simple" /\ month = MonthsPerYear
    /\ yearlyData' = Append(yearlyData, SimpleRecord)
    /\ year' = year + 1
    /\ month' = 0
    /\ pc' = LoopTest(year + 1, calc.analysisYears)
    /\ UNCHANGED <<variant, params, calc, totalMonthsElapsed, investmentValue,
                   loanBalance, totalPaid, totalBorrowingCost,
                   cumulativeInflationFactor, breakEvenYear, breakEvenYearReal, edits, shared, scenarios>>

----------------------------------------------------------------------------
(* Break-even.                                                             *)

RECURSIVE FirstTrue(_, _)
FirstTrue(hits, i) ==
    IF i > Len(hits) THEN -1 ELSE IF hits[i] THEN i - 1 ELSE FirstTrue(hits, i + 1)

RECURSIVE LastTrue(_, _)
LastTrue(hits, i) ==
    IF i = 0 THEN -1 ELSE IF hits[i] THEN i - 1 ELSE LastTrue(hits, i - 1)
\* Array.prototype.findLastIndex
ArrayFindLastIndex(hits) == LastTrue(hits, Len(hits))

\* Array.prototype.findIndex over the outcomes of the callback: the 0-based
\* index of the first element the callback accepts, or -1
ArrayFindIndex(hits) == FirstTrue(hits, 1)

\* full model: the fixed figures the gains are compared with
TotalLoanBorrowingCost == RAdd(calc.totalInterest, calc.totalInsuranceCost)
TotalLoanBorrowingCostReal ==
    IF Len(yearlyData) > 0
    THEN yearlyData[Len(yearlyData)].totalBorrowingCostReal
    ELSE RZero

\* the callbacks of the three searches
FullProfitable(d) == RLe(TotalLoanBorrowingCost, d.interestEarned)
FullProfitableReal(d) == RLe(TotalLoanBorrowingCostReal, d.interestEarnedReal)
SimpleProfitable(d) ==
    RLe(calc.totalInterest, RSub(d.investmentValue, d.totalPaid))

\* yearlyData.find(cb)?.year || null
FindYearOrNull(hits) ==
    IF ArrayFindIndex(hits) <= 0 THEN Null
    ELSE Some(yearlyData[ArrayFindIndex(hits) + 1].year)

\* yearlyData.find(cb): found ? found.year : null
FindYear(hits) ==
    LET i == ArrayFindIndex(hits)
    IN  IF i = -1 THEN Null ELSE Some(yearlyData[i + 1].year)

\* yearlyData.findIndex(cb) + 1 || null
FindIndexPlusOne(hits) ==
    LET v == ArrayFindIndex(hits) + 1
    IN  IF v = 0 THEN Null ELSE Some(v)

FinishFull ==
    /\ pc = "find" /\ variant = "full"
    /\ breakEvenYear' =
           FindYear([i \in 1..Len(yearlyData) |-> FullProfitable(yearlyData[i])])
    /\ breakEvenYearReal' =
           FindYear([i \in 1..Len(yearlyData) |-> FullProfitableReal(yearlyData[i])])
    /\ pc' = "done"
    /\ UNCHANGED <<variant, params, calc, yearlyData, locals, edits, shared, scenarios>>

\* the scenario values not yet computed
NotProjected ==
    /\ scenarioYearlyData = <<>>
    /\ bestCaseValue = RZero /\ worstCaseValue = RZero

\* the number of iterations of for (let year = 1; year <= analysisYears; year++)
LoopYears(analysisYears) == -MathCeil(RNeg(analysisYears))
\* a worst case that adds the volatility
WorstCaseAbove(p) == RAdd(p.investmentRate, p.investmentVolatility)
\* an expected case that takes the volatility off
ExpectedLessVolatility(p) == RSub(p.investmentRate, p.investmentVolatility)
\* the volatility-adjusted returns of the full model
BestCaseReturn(p) == RAdd(p.investmentRate, p.investmentVolatility)
WorstCaseReturn(p) == RSub(p.investmentRate, p.investmentVolatility)
\* the return of the expected scenario
ExpectedReturn(p) == p.investmentRate
\* scenarioCalculation(rate): principal compounded monthly over the horizon
ScenarioCalculation(rate, principal, analysisYears) ==
    Capitalize(principal, MonthlyOf(rate), MonthsPerYear * LoopYears(analysisYears))
\* the record of a year of scenarioYearlyData, from the record d before it
ScenarioYear(d, y, worstMonthlyRate, expectedMonthlyRate, bestMonthlyRate) ==
    [year |-> y,
     worst |-> Capitalize(d.worst, worstMonthlyRate, MonthsPerYear),
     expected |-> Capitalize(d.expected, expectedMonthlyRate, MonthsPerYear),
     best |-> Capitalize(d.best, bestMonthlyRate, MonthsPerYear)]
RECURSIVE ScenarioLoop(_, _, _, _, _, _)
ScenarioLoop(data, y, analysisYears, w, e, b) ==
    IF Len(data) = 0 \/ ~RLe(RInt(y), analysisYears) THEN data
    ELSE ScenarioLoop(Append(data, ScenarioYear(data[Len(data)], y, w, e, b)),
                      y + 1, analysisYears, w, e, b)
\* scenarioYearlyData, from the record of year 0
ScenarioYearlyData(principal, analysisYears, w, e, b) ==
    ScenarioLoop(<<[year |-> 0, worst |-> principal, expected |-> principal,
                    best |-> principal]>>,
                 1, analysisYears, w, e, b)

\* the scenario statements of the full page, once the projection is there
ProjectScenarios ==
    /\ variant = "full" /\ pc = "done" /\ NotProjected
    /\ scenarioYearlyData' =
           ScenarioYearlyData(calc.principal, calc.analysisYears,
                              MonthlyOf(WorstCaseReturn(params)),
                              MonthlyOf(ExpectedReturn(params)),
                              MonthlyOf(BestCaseReturn(params)))
    /\ bestCaseValue' =
           ScenarioCalculation(BestCaseReturn(params), calc.principal, calc.analysisYears)
    /\ worstCaseValue' =
           ScenarioCalculation(WorstCaseReturn(params), calc.principal, calc.analysisYears)
    /\ UNCHANGED <<variant, params, pc, locals, results, edits, shared>>

\* the deferral page and the simple page share the statement
FinishSimple ==
    /\ pc = "find" /\ variant # "full"
    /\ breakEvenYear' =
           FindIndexPlusOne([i \in 1..Len(yearlyData) |-> SimpleProfitable(yearlyData[i])])
    /\ breakEvenYearReal' = Null
    /\ pc' = "done"
    /\ UNCHANGED <<variant, params, calc, yearlyData, locals, edits, shared, scenarios>>

----------------------------------------------------------------------------------------------------------------------------------------
(* The projection of one parameter set: the page starts from inputs drawn  *)
(* from bounded sets and run through the page's clamps, and recomputes.    *)
(* The inputs keep numberOfPayments an integer (Math.pow with a fractional *)
(* exponent is not a rational).                                            *)

MaxTermYears == 2
MaxAdditionalYears == 1

TermYears == {1, MaxTermYears}
AdditionalYears == {0, MaxAdditionalYears}
\* investmentRate, inflationRate
Markets == {<<RZero, RZero>>, <<RInt(7), RZero>>, <<RInt(7), Tenths(25)>>}

FullInputs ==
    { FullClamp([loanAmount |-> RInt(200000), downPayment |-> dp,
                 interestRate |-> ir, loanTermYears |-> RInt(ty),
                 deferralMonths |-> dm, deferralType |-> dt,
                 insuranceCost |-> ic, investmentRate |-> mk[1],
                 investmentVolatility |-> RInt(3),
                 additionalYears |-> RInt(ay), inflationRate |-> mk[2]]) :
        dp \in {RInt(40000), RInt(200000)},
        ir \in {RZero, Tenths(45)},
        ty \in TermYears,
        dm \in {RZero, RInt(5), RInt(1000)},
        dt \in {"complete", "partial"},
        ic \in {RZero, RInt(30)},
        mk \in Markets,
        ay \in AdditionalYears }

DeferralInputs ==
    { DeferralClamp([loanAmount |-> RInt(200000), downPayment |-> RInt(40000),
                     interestRate |-> ir, loanTermYears |-> RInt(ty),
                     deferralMonths |-> dm, deferralType |-> dt,
                     investmentRate |-> inv, investmentVolatility |-> RInt(3),
                     analysisYears |-> RInt(ty + ay)]) :
        ir \in {RZero, Tenths(45)},
        ty \in TermYears,
        dm \in {RZero, RInt(5)},
        dt \in {"complete", "partial"},
        inv \in {RZero, RInt(7)},
        ay \in AdditionalYears }

SimpleInputs ==
    { [loanAmount |-> RInt(200000), downPayment |-> dp,
       interestRate |-> ir, loanTermYears |-> RInt(ty),
       investmentRate |-> inv, investmentVolatility |-> RInt(15),
       analysisYears |-> RInt(ay)] :
        dp \in {RInt(40000), RInt(200000)},
        ir \in {RZero, Tenths(45)},
        ty \in TermYears,
        inv \in {RZero, RInt(7)},
        ay \in {1, MaxTermYears + MaxAdditionalYears} }

NotComputed ==
    /\ pc = "params"
    /\ calc = <<>>
    /\ yearlyData = <<>>
    /\ year = 0 /\ month = 0 /\ totalMonthsElapsed = 0
    /\ investmentValue = RZero /\ loanBalance = RZero
    /\ totalPaid = RZero /\ totalBorrowingCost = RZero
    /\ cumulativeInflationFactor = ROne
    /\ breakEvenYear = Null /\ breakEvenYearReal = Null

Init ==
    /\ \/ variant = "full" /\ params \in FullInputs
       \/ variant = "deferral" /\ params \in DeferralInputs
       \/ variant = "simple" /\ params \in SimpleInputs
    /\ edits = 0
    /\ shared = Null
    /\ NotProjected
    /\ NotComputed

Next ==
    \/ Amortize
    \/ MonthStepFull
    \/ PushRecordFull
    \/ FinishFull
    \/ MonthStepDeferral
    \/ PushRecordDeferral
    \/ MonthStepSimple
    \/ PushRecordSimple
    \/ FinishSimple

Spec == Init /\ [][Next]_vars

\* The derivation alone: the full page with a loan of up to thirty years, its
\* volatility on either side of the two risk thresholds, and the reactive
\* values that are derived from the inputs before the yearlyData loop runs.
Volatilities ==
    {RZero, RInt(5), Tenths(99), RInt(10), RInt(15), Tenths(199), RInt(20),
     RInt(25), RInt(100)}
DeriveLoan(dp, ir, ty, v) ==
    FullClamp([loanAmount |-> RInt(200000), downPayment |-> dp,
               interestRate |-> ir, loanTermYears |-> RInt(ty),
               deferralMonths |-> RZero, deferralType |-> "complete",
               insuranceCost |-> RZero, investmentRate |-> RInt(7),
               investmentVolatility |-> v,
               additionalYears |-> RZero, inflationRate |-> RInt(2)])
DeriveInputs ==
    { DeriveLoan(dp, ir, ty, v) :
        dp \in {RInt(40000), RInt(100000)},
        ir \in {RZero, Tenths(45)},
        ty \in TermYears,
        v \in Volatilities }
    \cup { DeriveLoan(RInt(40000), Tenths(45), 30, RInt(15)) }
InitDerive ==
    /\ variant = "full" /\ params \in DeriveInputs
    /\ edits = 0
    /\ shared = Null
    /\ NotProjected
    /\ NotComputed
NextDerive == Amortize
SpecDerive == InitDerive /\ [][NextDerive]_vars

\* The projection of the full page followed by its scenarios: volatilities of
\* 0, below the investment rate and above it.
ScenarioInputs ==
    { FullClamp([loanAmount |-> RInt(200000), downPayment |-> dp,
                 interestRate |-> Tenths(45), loanTermYears |-> ROne,
                 deferralMonths |-> RZero, deferralType |-> "complete",
                 insuranceCost |-> RZero, investmentRate |-> mk[1],
                 investmentVolatility |-> v,
                 additionalYears |-> RInt(ay), inflationRate |-> mk[2]]) :
        dp \in {RInt(40000), RInt(200000)},
        mk \in Markets,
        v \in {RZero, RInt(3), RInt(15), RInt(100)},
        ay \in AdditionalYears }
InitScenario ==
    /\ variant = "full" /\ params \in ScenarioInputs
    /\ edits = 0
    /\ shared = Null
    /\ NotProjected
    /\ NotComputed
NextScenario ==
    \/ Amortize
    \/ MonthStepFull
    \/ PushRecordFull
    \/ FinishFull
    \/ ProjectScenarios
SpecScenario == InitScenario /\ [][NextScenario]_vars

\* The full page with no deferral and no insurance, and then the simple page
\* given the same loan, investment and horizon.
NeutralInputs ==
    { FullClamp([loanAmount |-> RInt(200000), downPayment |-> dp,
                 interestRate |-> ir, loanTermYears |-> RInt(ty),
                 deferralMonths |-> RZero, deferralType |-> dt,
                 insuranceCost |-> RZero, investmentRate |-> mk[1],
                 investmentVolatility |-> RInt(3),
                 additionalYears |-> RInt(ay), inflationRate |-> mk[2]]) :
        dp \in {RZero, RInt(40000), RInt(200000)},
        ir \in {RZero, Tenths(45)},
        ty \in TermYears,
        dt \in {"complete", "partial"},
        mk \in Markets,
        ay \in AdditionalYears }
\* the input values of the simple page, taken from the full page's
SimpleOf(p, analysisYears) ==
    [loanAmount |-> p.loanAmount, downPayment |-> p.downPayment,
     interestRate |-> p.interestRate, loanTermYears |-> p.loanTermYears,
     investmentRate |-> p.investmentRate,
     investmentVolatility |-> p.investmentVolatility,
     analysisYears |-> analysisYears]
\* the simple page is opened with the values of the computed full page, whose
\* results are kept for the comparison
OpenSimplePage ==
    /\ variant = "full" /\ pc = "done" /\ shared = Null
    /\ shared' = Some([params |-> params, yearlyData |-> yearlyData, calc |-> calc])
    /\ variant' = "simple"
    /\ params' = SimpleOf(params, calc.analysisYears)
    /\ pc' = "params"
    /\ calc' = <<>>
    /\ yearlyData' = <<>>
    /\ year' = 0 /\ month' = 0 /\ totalMonthsElapsed' = 0
    /\ investmentValue' = RZero /\ loanBalance' = RZero
    /\ totalPaid' = RZero /\ totalBorrowingCost' = RZero
    /\ cumulativeInflationFactor' = ROne
    /\ breakEvenYear' = Null /\ breakEvenYearReal' = Null
    /\ UNCHANGED <<edits, scenarios>>
InitNeutral ==
    /\ variant = "full" /\ params \in NeutralInputs
    /\ edits = 0
    /\ shared = Null
    /\ NotProjected
    /\ NotComputed
NextNeutral ==
    \/ Amortize
    \/ MonthStepFull
    \/ PushRecordFull
    \/ FinishFull
    \/ OpenSimplePage
    \/ MonthStepSimple
    \/ PushRecordSimple
    \/ FinishSimple
SpecNeutral == InitNeutral /\ [][NextNeutral]_vars

\* The projection of the full page for values typed with decimals: a term of
\* 1.125 years (13.5 months) with a deferral of 2.5 or 4.5 months, which the
\* clamps keep as they are and which leave numberOfPayments a whole number.
TypedInputs ==
    { FullClamp([loanAmount |-> RInt(200000), downPayment |-> RInt(40000),
                 interestRate |-> Tenths(45),
                 loanTermYears |-> RDiv(RInt(9), RInt(8)),
                 deferralMonths |-> dm, deferralType |-> dt,
                 insuranceCost |-> ic, investmentRate |-> RInt(7),
                 investmentVolatility |-> RInt(15),
                 additionalYears |-> ROne, inflationRate |-> RInt(2)]) :
        dm \in {RDiv(RInt(5), RInt(2)), RDiv(RInt(9), RInt(2))},
        dt \in {"complete", "partial"},
        ic \in {RZero, RInt(30)} }
InitTyped ==
    /\ variant = "full" /\ params \in TypedInputs
    /\ edits = 0
    /\ shared = Null
    /\ NotProjected
    /\ NotComputed
NextTyped ==
    \/ Amortize
    \/ MonthStepFull
    \/ PushRecordFull
    \/ FinishFull
SpecTyped == InitTyped /\ [][NextTyped]_vars

----------------------------------------------------------------------------
(* The full page under input edits.  An edit assigns the bound variable,   *)
(* and the reactive flush that follows runs the clamp statements and       *)
(* recomputes every derived value before the next event is handled.  The   *)
(* page starts from a share link (the onMount loader), so that the horizon *)
(* is short; an edit that would make the exact projection too long (a      *)
(* horizon above the one of the projection specification at a non-zero     *)
(* rate) is left out.                                                      *)

MaxEdits == 2

ShareLinkParams ==
    [DEFAULTS EXCEPT !.loanTermYears = RInt(MaxTermYears),
                     !.additionalYears = RInt(MaxAdditionalYears),
                     !.interestRate = RZero,
                     !.investmentRate = RZero,
                     !.inflationRate = RZero]

\* the values typed into the number inputs: below the range, inside, above
RawLoanAmount == {RInt(-1), RInt(10000), RInt(20000000)}
RawDownPayment == {RInt(-1), RInt(5000), RInt(300000)}
RawInterestRate == {RInt(-1), RInt(25)}
RawLoanTermYears == {RZero, RDiv(RInt(3), RInt(2)), RInt(1000)}
RawDeferralMonths == {RInt(-1), RInt(5), RInt(1000)}
RawInsuranceCost == {RInt(-1), RInt(20000)}
RawInvestmentRate == {RInt(-1), RInt(40)}
RawInvestmentVolatility == {RInt(-1), RInt(200)}
RawAdditionalYears == {RInt(-1), RInt(50)}
RawInflationRate == {RInt(-1), RInt(25)}

NoRates(p) ==
    p.interestRate.sg = 0 /\ p.investmentRate.sg = 0 /\ p.inflationRate.sg = 0
Affordable(p) ==
    \/ NoRates(p)
    \/ RLe(FullAnalysisYears(p), RInt(MaxTermYears + MaxAdditionalYears))

\* the flush after an assignment: the clamps have run, the rest is pending
Flush(p) ==
    /\ Affordable(p)
    /\ params' = p
    /\ pc' = "params"
    /\ edits' = edits + 1
    /\ shared' = Null
    /\ scenarioYearlyData' = <<>>
    /\ bestCaseValue' = RZero /\ worstCaseValue' = RZero
    /\ UNCHANGED <<variant, locals, results>>
Edited(p) ==
    /\ pc = "done" /\ variant = "full" /\ edits < MaxEdits
    /\ Flush(FullClamp(p))

EditLoanAmount == \E v \in RawLoanAmount : Edited([params EXCEPT !.loanAmount = v])
EditDownPayment == \E v \in RawDownPayment : Edited([params EXCEPT !.downPayment = v])
EditInterestRate == \E v \in RawInterestRate : Edited([params EXCEPT !.interestRate = v])
EditLoanTermYears ==
    \E v \in RawLoanTermYears : Edited([params EXCEPT !.loanTermYears = v])
EditDeferralMonths ==
    \E v \in RawDeferralMonths : Edited([params EXCEPT !.deferralMonths = v])
EditDeferralType ==
    \E v \in {"complete", "partial"} : Edited([params EXCEPT !.deferralType = v])
EditInsuranceCost ==
    \E v \in RawInsuranceCost : Edited([params EXCEPT !.insuranceCost = v])
EditInvestmentRate ==
    \E v \in RawInvestmentRate : Edited([params EXCEPT !.investmentRate = v])
EditInvestmentVolatility ==
    \E v \in RawInvestmentVolatility :
        Edited([params EXCEPT !.investmentVolatility = v])
EditAdditionalYears ==
    \E v \in RawAdditionalYears : Edited([params EXCEPT !.additionalYears = v])
EditInflationRate ==
    \E v \in RawInflationRate : Edited([params EXCEPT !.inflationRate = v])

\* The share link.  A number is written by Number.prototype.toString and read
\* by Number(); the numerals are sequences of characters.  The values are
\* those whose decimal notation is plain digits (no exponent).
DigitChars == <<"0", "1", "2", "3", "4", "5", "6", "7", "8", "9">>
\* the number of decimals of x, and x without its decimal point
Decimals(x) == Max2(x.e[1], x.e[3])
Shifted(x) == BNScale(x.n, <<Decimals(x) - x.e[1], 0, Decimals(x) - x.e[3]>>)
\* the decimal digit of weight 10^(i - 1) of a natural number n
DecimalDigit(n, i) == (At(n, (i - 1) \div 3 + 1) \div 10^((i - 1) % 3)) % 10
\* the weight of the leading digit of n (0 for 0)
TopDigit(n) ==
    CHOOSE d \in 0..(3 * Len(n)) :
        /\ d = 0 \/ DecimalDigit(n, d) # 0
        /\ \A i \in (d + 1)..(3 * Len(n)) : DecimalDigit(n, i) = 0
\* how many of the k decimals of n are zeros at the end
TrailingZeros(n, k) ==
    CHOOSE t \in 0..k :
        /\ t = k \/ DecimalDigit(n, t + 1) # 0
        /\ \A i \in 1..t : DecimalDigit(n, i) = 0
\* the w digits before the point, and the point with the decimals that are
\* left once t zeros are dropped
IntegerPart(n, k, w) ==
    [j \in 1..w |-> DigitChars[DecimalDigit(n, k + w + 1 - j) + 1]]
FractionPart(n, k, t) ==
    IF t = k THEN <<>>
    ELSE <<".">> \o [j \in 1..(k - t) |-> DigitChars[DecimalDigit(n, k + 1 - j) + 1]]
Numeral(sg, n, k) ==
    (IF sg < 0 THEN <<"-">> ELSE <<>>)
        \o IntegerPart(n, k, Max2(1, TopDigit(n) - k))
        \o FractionPart(n, k, TrailingZeros(n, k))
\* x.toString()
NumberToString(x) == Numeral(x.sg, Shifted(x), Decimals(x))

\* the numeral without its sign, and where its point is (past the end if it
\* has none)
Unsigned(s) == IF Len(s) > 0 /\ s[1] = "-" THEN Tail(s) ELSE s
PointAt(u) ==
    CHOOSE i \in 1..(Len(u) + 1) :
        /\ i = Len(u) + 1 \/ u[i] = "."
        /\ \A j \in 1..(i - 1) : u[j] # "."
DigitOf(ch) == CHOOSE d \in 0..9 : DigitChars[d + 1] = ch
\* the digits of u, the most significant first, the point at pt left out
DigitsOf(u, pt) ==
    [j \in 1..(Len(u) - (IF pt <= Len(u) THEN 1 ELSE 0)) |->
        DigitOf(IF j < pt THEN u[j] ELSE u[j + 1])]
\* the digit of weight 10^(i - 1) of the digits ds, and the limbs of ds
DigitAt(ds, i) == IF 1 <= i /\ i <= Len(ds) THEN ds[Len(ds) + 1 - i] ELSE 0
LimbsOf(ds) ==
    BNTrim(BNSeq([m \in 1..((Len(ds) + 2) \div 3) |->
                    DigitAt(ds, 3 * m - 2) + 10 * DigitAt(ds, 3 * m - 1)
                        + 100 * DigitAt(ds, 3 * m)]))
\* the number with the digits ds, the last k of them decimals
Parsed(sg, ds, k) == Rat(sg, LimbsOf(ds), <<k, 0, k>>, One)
NumberOf(sg, u, pt) ==
    Parsed(sg, BNSeq(DigitsOf(u, pt)), IF pt <= Len(u) THEN Len(u) - pt ELSE 0)
\* a reader that stops at the point
WholeNumber(s) ==
    NumberOf(IF s[1] = "-" THEN -1 ELSE 1,
             SubSeq(Unsigned(s), 1, PointAt(Unsigned(s)) - 1),
             PointAt(Unsigned(s)))
\* Number(s)
Number(s) ==
    NumberOf(IF s[1] = "-" THEN -1 ELSE 1, Unsigned(s), PointAt(Unsigned(s)))

\* the query string of generateShareUrl (the preset and the currency, which
\* no computation reads, are left out)
GenerateShareUrl(p) ==
    [loanAmount |-> NumberToString(p.loanAmount),
     interestRate |-> NumberToString(p.interestRate),
     loanTermYears |-> NumberToString(p.loanTermYears),
     downPayment |-> NumberToString(p.downPayment),
     deferralMonths |-> NumberToString(p.deferralMonths),
     deferralType |-> p.deferralType,
     insuranceCost |-> NumberToString(p.insuranceCost),
     investmentRate |-> NumberToString(p.investmentRate),
     investmentVolatility |-> NumberToString(p.investmentVolatility),
     additionalYears |-> NumberToString(p.additionalYears),
     inflationRate |-> NumberToString(p.inflationRate)]
\* if (params.has(key)) x = Number(params.get(key)), on the initial value
Loaded(url, key) ==
    IF key \in DOMAIN url THEN Number(url[key]) ELSE DEFAULTS[key]
\* the values after the onMount callback
OnMount(url) ==
    [loanAmount |-> Loaded(url, "loanAmount"),
     interestRate |-> Loaded(url, "interestRate"),
     loanTermYears |-> Loaded(url, "loanTermYears"),
     downPayment |-> Loaded(url, "downPayment"),
     deferralMonths |-> Loaded(url, "deferralMonths"),
     deferralType |->
         IF "deferralType" \in DOMAIN url THEN url.deferralType
         ELSE DEFAULTS.deferralType,
     insuranceCost |-> Loaded(url, "insuranceCost"),
     investmentRate |-> Loaded(url, "investmentRate"),
     investmentVolatility |-> Loaded(url, "investmentVolatility"),
     additionalYears |-> Loaded(url, "additionalYears"),
     inflationRate |-> Loaded(url, "inflationRate")]

\* the page is opened with the link that this page generates: a new page,
\* nothing computed yet, its values those of onMount once clamped
LoadShareLink ==
    /\ pc = "done" /\ variant = "full" /\ edits < MaxEdits
    /\ shared' = Some([params |-> params, yearlyData |-> yearlyData])
    /\ scenarioYearlyData' = <<>>
    /\ bestCaseValue' = RZero /\ worstCaseValue' = RZero
    /\ params' = FullClamp(OnMount(GenerateShareUrl(params)))
    /\ edits' = edits + 1
    /\ pc' = "params"
    /\ calc' = <<>>
    /\ yearlyData' = <<>>
    /\ year' = 0 /\ month' = 0 /\ totalMonthsElapsed' = 0
    /\ investmentValue' = RZero /\ loanBalance' = RZero
    /\ totalPaid' = RZero /\ totalBorrowingCost' = RZero
    /\ cumulativeInflationFactor' = ROne
    /\ breakEvenYear' = Null /\ breakEvenYearReal' = Null
    /\ UNCHANGED variant

\* query strings written by hand: the link of the initial page with another
\* deferral, its deferralType any string, or some of its keys left out
WithoutKeys(url, keys) == [k \in DOMAIN url \ keys |-> url[k]]
QueryStrings ==
    { [GenerateShareUrl(ShareLinkParams) EXCEPT !.deferralType = dt,
                                                !.deferralMonths = dm] :
        dt \in {"none", "partial"}, dm \in {<<"5">>, <<"9", "9">>} }
    \cup { WithoutKeys(GenerateShareUrl(ShareLinkParams),
                       {"deferralType", "deferralMonths"}) }
\* the values of a page opened with the query string url, after the clamps
Restored(url) == FullClamp(OnMount(url))
\* the page is opened with a query string: a new page, nothing computed yet
LoadQueryString ==
    /\ pc = "done" /\ variant = "full" /\ edits < MaxEdits
    /\ \E url \in QueryStrings :
           /\ Affordable(Restored(url))
           /\ params' = Restored(url)
    /\ shared' = Null
    /\ scenarioYearlyData' = <<>>
    /\ bestCaseValue' = RZero /\ worstCaseValue' = RZero
    /\ edits' = edits + 1
    /\ pc' = "params"
    /\ calc' = <<>>
    /\ yearlyData' = <<>>
    /\ year' = 0 /\ month' = 0 /\ totalMonthsElapsed' = 0
    /\ investmentValue' = RZero /\ loanBalance' = RZero
    /\ totalPaid' = RZero /\ totalBorrowingCost' = RZero
    /\ cumulativeInflationFactor' = ROne
    /\ breakEvenYear' = Null /\ breakEvenYearReal' = Null
    /\ UNCHANGED variant

InitNorm ==
    /\ variant = "full"
    /\ params = FullClamp(ShareLinkParams)
    /\ edits = 0
    /\ shared = Null
    /\ NotProjected
    /\ NotComputed

NextNorm ==
    \/ Amortize
    \/ MonthStepFull
    \/ PushRecordFull
    \/ FinishFull
    \/ EditLoanAmount
    \/ EditDownPayment
    \/ EditInterestRate
    \/ EditLoanTermYears
    \/ EditDeferralMonths
    \/ EditDeferralType
    \/ EditInsuranceCost
    \/ EditInvestmentRate
    \/ EditInvestmentVolatility
    \/ EditAdditionalYears
    \/ EditInflationRate
    \/ LoadShareLink
    \/ LoadQueryString

SpecNorm == InitNorm /\ [][NextNorm]_vars

----------------------------------------------------------------------------
(* Properties.                                                             *)

Computed == pc # "params"
Years == 1..Len(yearlyData)
Between(lo, x, hi) == RLe(lo, x) /\ RLe(x, hi)
\* the profitability predicate of the page that runs
Profitable(d) == IF variant = "full" THEN FullProfitable(d) ELSE SimpleProfitable(d)

\* C1: in the full model, once month totalLoanMonths has been simulated the
\* loan balance is exactly 0, and the record of year loanTermYears shows a
\* loanBalance of 0.
C1_LoanRetired ==
    variant = "full" =>
        /\ (pc \in {"loop", "find"} /\ RLe(calc.totalLoanMonths, RInt(totalMonthsElapsed)))
               => loanBalance.sg = 0
        /\ pc = "done" =>
               \A i \in Years :
                   REq(RInt(yearlyData[i].year), params.loanTermYears)
                       => yearlyData[i].loanBalance.sg = 0
\* at a positive rate the payments do retire the loan exactly: the record of
\* the last year of the loan is still active and shows 0
C1_RetiredAtPositiveRate ==
    /\ variant = "full" /\ pc = "done"
    /\ calc.monthlyRate.sg = 1 /\ calc.principal.sg = 1
    /\ \E i \in Years :
           /\ REq(RInt(yearlyData[i].year), params.loanTermYears)
           /\ yearlyData[i].isLoanActive
           /\ yearlyData[i].loanBalance.sg = 0
           /\ yearlyData[i - 1].loanBalance.sg = 1

\* C2: whenever monthlyRate is 0, monthlyPayment equals
\* principalAfterDeferral / numberOfPayments.
C2_ZeroRatePayment ==
    (Computed /\ calc.monthlyRate.sg = 0) =>
        REq(calc.monthlyPayment,
            RDiv(calc.principalAfterDeferral, calc.numberOfPayments))
\* a zero rate on a positive principal
C2_ZeroRateLoan ==
    /\ pc = "done" /\ calc.monthlyRate.sg = 0 /\ calc.principal.sg = 1
    /\ calc.monthlyPayment.sg = 0

\* C3: in the full model, after any sequence of edits and the clamps that
\* follow each, every parameter lies in its range.
C3_InRange ==
    variant = "full" =>
        /\ Between(RZero, params.loanAmount, RInt(10000000))
        /\ Between(RZero, params.downPayment, params.loanAmount)
        /\ RLe(RZero, Principal(params))
        /\ Between(RZero, params.interestRate, RInt(20))
        /\ Between(ROne, params.loanTermYears, RInt(40))
        /\ Between(RZero, params.deferralMonths,
                   RSub(RMul(params.loanTermYears, RInt(MonthsPerYear)), ROne))
        /\ Between(RZero, params.insuranceCost, RInt(10000))
        /\ Between(RZero, params.investmentRate, RInt(30))
        /\ Between(RZero, params.investmentVolatility, RInt(100))
        /\ Between(RZero, params.additionalYears, RInt(30))
        /\ Between(RZero, params.inflationRate, RInt(20))
\* the loan amount was typed below the down payment, which followed it down
C3_DownPaymentFollows ==
    /\ edits > 0
    /\ REq(params.loanAmount, RInt(10000))
    /\ REq(params.downPayment, RInt(10000))

\* C4: in the full model, deferralMonths < totalLoanMonths, and
\* numberOfPayments = totalLoanMonths - deferralMonths >= 1.
C4_PaymentsLeft ==
    (variant = "full" /\ Computed) =>
        /\ RLt(params.deferralMonths, calc.totalLoanMonths)
        /\ REq(calc.numberOfPayments,
               RSub(calc.totalLoanMonths, params.deferralMonths))
        /\ RLe(ROne, calc.numberOfPayments)
\* the deferral was typed above the term and left one payment
C4_OnePaymentLeft ==
    /\ variant = "full" /\ pc = "done" /\ edits > 0
    /\ REq(calc.numberOfPayments, ROne)
    /\ RLt(RZero, params.deferralMonths)

\* C5: in the full model, analysisYears >= ceil(totalLoanMonths / 12), and
\* the projection simulates every month of the loan.
C5_HorizonCoversLoan ==
    variant = "full" =>
        /\ Computed =>
               RLe(RInt(TotalLoanYears(calc.totalLoanMonths)), calc.analysisYears)
        /\ pc = "done" => RLe(calc.totalLoanMonths, RInt(totalMonthsElapsed))
\* a term of a year and a half with no additional year
C5_HalfYearTerm ==
    /\ variant = "full" /\ pc = "done"
    /\ REq(params.loanTermYears, RDiv(RInt(3), RInt(2)))
    /\ params.additionalYears.sg = 0
    /\ totalMonthsElapsed = MonthsPerYear

\* C6: in every model, a break-even year that is not null is the year of a
\* record that satisfies the profitability predicate, and no record of a
\* smaller year satisfies it.
C6_FirstProfitableYear ==
    (pc = "done" /\ breakEvenYear # Null) =>
        \E i \in Years :
            /\ yearlyData[i].year = breakEvenYear[1]
            /\ Profitable(yearlyData[i])
            /\ \A j \in Years :
                   yearlyData[j].year < yearlyData[i].year
                       => ~Profitable(yearlyData[j])
\* a break-even after a year that is not profitable
C6_BreakEvenAfterFirstYear ==
    /\ pc = "done" /\ breakEvenYear # Null
    /\ \E i \in Years :
           /\ yearlyData[i].year = breakEvenYear[1]
           /\ yearlyData[i].year >= 2
           /\ i > 1 /\ ~Profitable(yearlyData[i - 1])

\* C7: in every model, the break-even year is null exactly when no record
\* satisfies the profitability predicate, and a year that is returned is the
\* year of a record that satisfies it (the real break-even of the full model
\* included).
C7_NullIffNoProfitableYear ==
    pc = "done" =>
        /\ (breakEvenYear = Null) <=> (\A i \in Years : ~Profitable(yearlyData[i]))
        /\ breakEvenYear # Null =>
               \E i \in Years : /\ yearlyData[i].year = breakEvenYear[1]
                                /\ Profitable(yearlyData[i])
        /\ variant = "full" =>
               /\ (breakEvenYearReal = Null)
                      <=> (\A i \in Years : ~FullProfitableReal(yearlyData[i]))
               /\ breakEvenYearReal # Null =>
                      \E i \in Years : /\ yearlyData[i].year = breakEvenYearReal[1]
                                       /\ FullProfitableReal(yearlyData[i])
\* a projection with records and no profitable year
C7_NoBreakEven ==
    /\ pc = "done" /\ breakEvenYear = Null
    /\ Len(yearlyData) > 1
    /\ \A i \in Years : ~Profitable(yearlyData[i])

\* C8: in the full model, from a record of year y with y * 12 >=
\* deferralMonths to the next record the loan balance does not increase, and
\* no record has a negative loan balance.
C8_BalanceNonIncreasing ==
    variant = "full" =>
        /\ \A i \in Years : yearlyData[i].loanBalance.sg >= 0
        /\ \A i \in Years :
               (i < Len(yearlyData)
                /\ RLe(params.deferralMonths,
                       RInt(yearlyData[i].year * MonthsPerYear)))
                   => RLe(yearlyData[i + 1].loanBalance, yearlyData[i].loanBalance)
\* a year of repayment after a complete deferral: the balance, which the
\* deferral had raised above the principal, went down
C8_BalanceGoesDown ==
    /\ variant = "full" /\ pc = "done"
    /\ params.deferralMonths.sg = 1 /\ params.deferralType = "complete"
    /\ \E i \in Years :
           /\ i < Len(yearlyData)
           /\ RLe(params.deferralMonths, RInt(yearlyData[i].year * MonthsPerYear))
           /\ RLt(yearlyData[i + 1].loanBalance, yearlyData[i].loanBalance)
           /\ yearlyData[i].isLoanActive
           /\ calc.monthlyRate.sg = 1

\* C9: in the full model, totalPaid does not decrease from a record to the
\* next (year 0 included), and neither does investmentValue, the investment
\* rate being at least 0.
C9_PaidAndInvestedNonDecreasing ==
    variant = "full" =>
        \A i \in Years :
            i < Len(yearlyData) =>
                /\ RLe(yearlyData[i].totalPaid, yearlyData[i + 1].totalPaid)
                /\ RLe(RZero, params.investmentRate) =>
                       RLe(yearlyData[i].investmentValue,
                           yearlyData[i + 1].investmentValue)
\* both grew from year 0 to year 1
C9_BothGrow ==
    /\ variant = "full" /\ pc = "done" /\ Len(yearlyData) > 1
    /\ RLt(yearlyData[1].totalPaid, yearlyData[2].totalPaid)
    /\ RLt(yearlyData[1].investmentValue, yearlyData[2].investmentValue)

\* C10: whenever downPayment = loanAmount (principal 0), monthlyPayment is 0
\* and every record, year 0 included, has a loanBalance of 0.
C10_NothingBorrowed ==
    (Computed /\ REq(params.downPayment, params.loanAmount)) =>
        /\ calc.monthlyPayment.sg = 0
        /\ \A i \in Years : yearlyData[i].loanBalance.sg = 0
\* nothing borrowed at a positive rate with a complete deferral
C10_NothingBorrowedDeferred ==
    /\ variant = "full" /\ pc = "done"
    /\ REq(params.downPayment, params.loanAmount)
    /\ params.interestRate.sg = 1
    /\ params.deferralMonths.sg = 1 /\ params.deferralType = "complete"
    /\ Len(yearlyData) > 1

\* C11: in the full model, with a positive principal, a positive monthly rate
\* and a complete deferral of at least one month, principalAfterDeferral and
\* monthlyPayment are both strictly greater than they are for the same
\* parameters with deferralMonths = 0 (checked where the amortization values
\* have just been derived).
WithoutDeferral(p) == [p EXCEPT !.deferralMonths = RZero]
Deferred ==
    /\ variant = "full" /\ pc = "loop" /\ totalMonthsElapsed = 0
    /\ calc.principal.sg = 1 /\ calc.monthlyRate.sg = 1
    /\ params.deferralType = "complete" /\ RLe(ROne, params.deferralMonths)
C11_DeferralRaisesPayment ==
    Deferred =>
        /\ RLt(PrincipalAfterDeferral(WithoutDeferral(params)),
               calc.principalAfterDeferral)
        /\ RLt(FullCalc(WithoutDeferral(params)).monthlyPayment,
               calc.monthlyPayment)
\* a complete deferral of five months on a loan at a positive rate
C11_FiveMonthsDeferred == Deferred /\ REq(params.deferralMonths, RInt(5))

\* C12: in the full model, the share link of a page whose values are
\* normalized, read back by the onMount loader and clamped, gives the same
\* values, and the page opened with it computes the same yearlyData.
SameParams(p, q) ==
    /\ REq(p.loanAmount, q.loanAmount)
    /\ REq(p.interestRate, q.interestRate)
    /\ REq(p.loanTermYears, q.loanTermYears)
    /\ REq(p.downPayment, q.downPayment)
    /\ REq(p.deferralMonths, q.deferralMonths)
    /\ p.deferralType = q.deferralType
    /\ REq(p.insuranceCost, q.insuranceCost)
    /\ REq(p.investmentRate, q.investmentRate)
    /\ REq(p.investmentVolatility, q.investmentVolatility)
    /\ REq(p.additionalYears, q.additionalYears)
    /\ REq(p.inflationRate, q.inflationRate)
SameRecord(d, e) ==
    /\ d.year = e.year
    /\ REq(d.investmentValue, e.investmentValue)
    /\ REq(d.investmentValueReal, e.investmentValueReal)
    /\ REq(d.interestEarned, e.interestEarned)
    /\ REq(d.interestEarnedReal, e.interestEarnedReal)
    /\ REq(d.loanBalance, e.loanBalance)
    /\ REq(d.totalPaid, e.totalPaid)
    /\ REq(d.totalPaidReal, e.totalPaidReal)
    /\ REq(d.totalBorrowingCost, e.totalBorrowingCost)
    /\ REq(d.totalBorrowingCostReal, e.totalBorrowingCostReal)
    /\ REq(d.netPosition, e.netPosition)
    /\ REq(d.netPositionReal, e.netPositionReal)
    /\ d.isLoanActive = e.isLoanActive
    /\ d.isDeferralPeriod = e.isDeferralPeriod
SameData(a, b) ==
    /\ Len(a) = Len(b)
    /\ \A i \in 1..Len(a) : SameRecord(a[i], b[i])
C12_ShareLinkRoundTrip ==
    (variant = "full" /\ shared # Null) =>
        /\ SameParams(params, shared[1].params)
        /\ pc = "done" => SameData(yearlyData, shared[1].yearlyData)
\* a page opened with the link of a page whose term was a year and a half
C12_HalfYearShared ==
    /\ variant = "full" /\ shared # Null /\ pc = "done"
    /\ REq(params.loanTermYears, RDiv(RInt(3), RInt(2)))
    /\ Len(yearlyData) > 1

\* C13: in the full model every yearly record, the record of year 0 included,
\* has netPosition = investmentValue - totalPaid and
\* netPositionReal = investmentValueReal - totalPaidReal.
NetOfPaid(d) ==
    /\ REq(d.netPosition, RSub(d.investmentValue, d.totalPaid))
    /\ REq(d.netPositionReal, RSub(d.investmentValueReal, d.totalPaidReal))
C13_NetPositionIsValueLessPaid ==
    variant = "full" => \A i \in Years : NetOfPaid(yearlyData[i])
\* the records of a computed page whose last year has payments and inflation
C13_PaidAndInflated ==
    /\ variant = "full" /\ pc = "done" /\ Len(yearlyData) > 1
    /\ yearlyData[1].year = 0
    /\ yearlyData[Len(yearlyData)].totalPaid.sg = 1
    /\ ~REq(yearlyData[Len(yearlyData)].totalPaidReal,
            yearlyData[Len(yearlyData)].totalPaid)

\* C14: for loanAmount = 200000, downPayment = 40000, interestRate = 4.5,
\* loanTermYears = 30 and deferralMonths = 0 the derived values are
\* principal = 160000, monthlyRate = 0.00375, numberOfPayments = 360 and a
\* monthlyPayment that is 810.70 once rounded to cents.
TheExample ==
    /\ variant = "full" /\ pc # "params"
    /\ REq(params.loanAmount, RInt(200000))
    /\ REq(params.downPayment, RInt(40000))
    /\ REq(params.interestRate, Tenths(45))
    /\ REq(params.loanTermYears, RInt(30))
    /\ REq(params.deferralMonths, RZero)
\* x rounded to cents is the number of cents c
RoundsToCents(x, c) ==
    /\ RLe(RDiv(RInt(2 * c - 1), RInt(200)), x)
    /\ RLt(x, RDiv(RInt(2 * c + 1), RInt(200)))
C14_ThirtyYearExample ==
    TheExample =>
        /\ REq(calc.principal, RInt(160000))
        /\ REq(calc.monthlyRate, RDiv(RInt(375), RInt(100000)))
        /\ REq(calc.numberOfPayments, RInt(360))
        /\ RoundsToCents(calc.monthlyPayment, 81070)
\* the example, derived, shown at medium risk
C14_ExampleDerived == TheExample /\ calc.riskLevel = "Medium"

\* C15: riskLevel is Low iff investmentVolatility < 10, Medium iff
\* 10 <= investmentVolatility < 20 and High iff investmentVolatility >= 20,
\* and riskColor is the colour of that same band.
C15_RiskBands ==
    pc # "params" =>
        /\ calc.riskLevel = "Low" <=> RLt(params.investmentVolatility, RInt(10))
        /\ calc.riskLevel = "Medium" <=>
               /\ RLe(RInt(10), params.investmentVolatility)
               /\ RLt(params.investmentVolatility, RInt(20))
        /\ calc.riskLevel = "High" <=> RLe(RInt(20), params.investmentVolatility)
        /\ calc.riskLevel \in {"Low", "Medium", "High"}
        /\ calc.riskColor = "text-green-600" <=> calc.riskLevel = "Low"
        /\ calc.riskColor = "text-yellow-600" <=> calc.riskLevel = "Medium"
        /\ calc.riskColor = "text-red-600" <=> calc.riskLevel = "High"
\* a volatility of exactly 10, the first of the medium band
C15_TenIsMedium ==
    /\ pc # "params" /\ REq(params.investmentVolatility, RInt(10))
    /\ calc.riskLevel = "Medium" /\ calc.riskColor = "text-yellow-600"

\* C16: in the full model the totalBorrowingCost of the final yearly record
\* equals totalInterest + totalInsuranceCost, the figure the nominal
\* break-even predicate compares against (stated at a positive rate; at rate
\* 0 totalInterest is that of a payment of 0, see C2).
FinalRecord == yearlyData[Len(yearlyData)]
C16_FinalCostIsLoanCost ==
    (variant = "full" /\ pc = "done" /\ calc.monthlyRate.sg = 1) =>
        REq(FinalRecord.totalBorrowingCost, TotalLoanBorrowingCost)
\* a complete deferral at a positive rate: the final record falls short of
\* the fixed figure by the interest that the deferral capitalized
C16_CapitalizedInterestMissing ==
    /\ variant = "full" /\ pc = "done" /\ calc.monthlyRate.sg = 1
    /\ params.deferralType = "complete" /\ params.deferralMonths.sg = 1
    /\ RLt(FinalRecord.totalBorrowingCost, TotalLoanBorrowingCost)
    /\ REq(RAdd(FinalRecord.totalBorrowingCost,
                RSub(calc.principalAfterDeferral, calc.principal)),
           TotalLoanBorrowingCost)

\* the months simulated so far are all deferral months, and the last of the
\* deferral months is among them
InDeferral ==
    /\ variant = "full" /\ pc = "loop"
    /\ RLe(RInt(totalMonthsElapsed), params.deferralMonths)
DeferralOver ==
    InDeferral /\ RLt(params.deferralMonths, RInt(totalMonthsElapsed + 1))
\* what has been paid so far without the insurance
PaidLessInsurance(paid) ==
    RSub(paid, RMul(params.insuranceCost, RInt(totalMonthsElapsed)))

\* C17: in the full model with a partial (interest-only) deferral, loanBalance
\* stays equal to principal throughout the deferral months, the interest-only
\* payments that the loop has added to totalPaid and to totalBorrowingCost by
\* the end of the deferral sum to
\* deferralInterestPaid = principal * monthlyRate * deferralMonths, and that
\* amount is part of totalInterest and of totalCost.
C17_InterestOnlyDeferral ==
    (InDeferral /\ params.deferralType = "partial") =>
        /\ REq(loanBalance, calc.principal)
        /\ REq(calc.deferralInterestPaid,
               RMul(RMul(calc.principal, calc.monthlyRate), params.deferralMonths))
        /\ REq(calc.totalInterest,
               RAdd(RSub(calc.totalPayment, calc.principal), calc.deferralInterestPaid))
        /\ REq(calc.totalCost,
               RAdd(RAdd(RAdd(calc.totalPayment, params.downPayment),
                         calc.deferralInterestPaid),
                    calc.totalInsuranceCost))
        /\ DeferralOver =>
               /\ REq(PaidLessInsurance(totalPaid), calc.deferralInterestPaid)
               /\ REq(PaidLessInsurance(totalBorrowingCost), calc.deferralInterestPaid)
\* a partial deferral of 2.5 months: two interest-only payments have been
\* made when the deferral is over, and deferralInterestPaid counts 2.5
C17_HalfMonthUnpaid ==
    /\ DeferralOver /\ params.deferralType = "partial"
    /\ REq(params.deferralMonths, RDiv(RInt(5), RInt(2)))
    /\ REq(PaidLessInsurance(totalPaid),
           RMul(RMul(calc.principal, calc.monthlyRate), RInt(2)))
    /\ RLt(PaidLessInsurance(totalPaid), calc.deferralInterestPaid)

\* C18: in the full model with a complete (capitalizing) deferral, the
\* loanBalance of the monthly loop at the end of the last deferral month
\* equals principalAfterDeferral, the base of the annuity.
C18_CapitalizedBalance ==
    (DeferralOver /\ params.deferralType = "complete") =>
        REq(loanBalance, calc.principalAfterDeferral)
\* a complete deferral of 2.5 months: the loop has capitalized two months
\* when the deferral is over, and principalAfterDeferral three
C18_ThirdMonthCapitalized ==
    /\ DeferralOver /\ params.deferralType = "complete"
    /\ REq(params.deferralMonths, RDiv(RInt(5), RInt(2)))
    /\ REq(RMul(loanBalance, RAdd(ROne, calc.monthlyRate)),
           calc.principalAfterDeferral)

\* the phase of month m: the flags that classify it
PhasesOf(m) ==
    (IF IsDeferralMonth(m) THEN {"deferral"} ELSE {})
        \cup (IF IsRepaymentMonth(m) THEN {"repayment"} ELSE {})
        \cup (IF ~IsLoanActiveMonth(m) THEN {"post-loan"} ELSE {})
\* the months in which the loop has paid monthlyPayment
PaymentMonths ==
    {m \in 1..totalMonthsElapsed : ~IsDeferralMonth(m) /\ IsRepaymentMonth(m)}

\* C19: in the full model every simulated month is exactly one of a deferral
\* month, a repayment month or a post-loan month; no deferral month follows
\* a repayment month and no loan month follows a post-loan month; and the
\* number of months in which monthlyPayment is paid is numberOfPayments
\* (each month is looked at in the states where it is the last one simulated).
C19_MonthPhases ==
    (variant = "full" /\ Computed) =>
        /\ totalMonthsElapsed >= 1 =>
               Cardinality(PhasesOf(totalMonthsElapsed)) = 1
        /\ totalMonthsElapsed >= 2 =>
               /\ PhasesOf(totalMonthsElapsed - 1) = {"repayment"}
                      => PhasesOf(totalMonthsElapsed) # {"deferral"}
               /\ PhasesOf(totalMonthsElapsed - 1) = {"post-loan"}
                      => PhasesOf(totalMonthsElapsed) = {"post-loan"}
        /\ pc = "done" =>
               REq(RInt(Cardinality(PaymentMonths)), calc.numberOfPayments)
\* a term of a year and a half with a deferral of twelve months, projected
\* over one year: six payments are due and no repayment month is simulated
C19_NoPaymentMade ==
    /\ variant = "full" /\ pc = "done"
    /\ REq(calc.numberOfPayments, RInt(6))
    /\ totalMonthsElapsed = MonthsPerYear
    /\ PaymentMonths = {}

\* a month after the last loan month is simulated in this step
PostLoanStep ==
    /\ variant = "full" /\ pc = "loop"
    /\ totalMonthsElapsed' = totalMonthsElapsed + 1
    /\ RLt(calc.totalLoanMonths, RInt(totalMonthsElapsed'))
\* the record of the year the loan ends in
TermRecords == {i \in Years : REq(RInt(yearlyData[i].year), params.loanTermYears)}
\* the records after the loan repeat what the record t has paid
PaidAsIn(t) ==
    \A i \in Years :
        RLt(params.loanTermYears, RInt(yearlyData[i].year)) =>
            /\ REq(yearlyData[i].totalPaid, yearlyData[t].totalPaid)
            /\ REq(yearlyData[i].totalBorrowingCost, yearlyData[t].totalBorrowingCost)
AfterTheLoan ==
    (variant = "full" /\ Computed) =>
        /\ \A t \in TermRecords : PaidAsIn(t)
        /\ \A i \in Years :
               ~yearlyData[i].isLoanActive => yearlyData[i].loanBalance.sg = 0

\* C20: in the full model a month after the last loan month leaves totalPaid,
\* totalBorrowingCost and the loop's loanBalance unchanged and advances only
\* investmentValue and the inflation factor; every record of a year after
\* loanTermYears has the totalPaid and totalBorrowingCost of the record of
\* year loanTermYears; and a record that is not active has loanBalance 0.
C20_NothingPaidAfterLoan ==
    /\ []AfterTheLoan
    /\ [][PostLoanStep =>
              /\ totalPaid' = totalPaid
              /\ totalBorrowingCost' = totalBorrowingCost
              /\ loanBalance' = loanBalance
              /\ UNCHANGED <<params, calc, yearlyData, year>>]_vars
\* an insured loan at a positive rate, a year after its end: the investment
\* has grown since the record of the last loan year, what was paid has not
C20_YearAfterLoan ==
    /\ variant = "full" /\ pc = "done"
    /\ params.insuranceCost.sg = 1 /\ calc.monthlyRate.sg = 1
    /\ \E t \in TermRecords :
           /\ t < Len(yearlyData)
           /\ ~FinalRecord.isLoanActive
           /\ yearlyData[t].totalPaid.sg = 1
           /\ RLt(yearlyData[t].investmentValue, FinalRecord.investmentValue)
           /\ REq(yearlyData[t].totalPaid, FinalRecord.totalPaid)

\* a month of the full model's loop is simulated in this step
MonthSimulated ==
    /\ variant = "full" /\ pc = "loop"
    /\ totalMonthsElapsed' = totalMonthsElapsed + 1
\* what month m pays and what it costs, insurance aside, on a balance b
InterestOn(b) == RMul(b, calc.monthlyRate)
PaymentOf(m, b) ==
    IF IsDeferralMonth(m)
    THEN IF params.deferralType = "complete" THEN RZero ELSE InterestOn(b)
    ELSE IF IsRepaymentMonth(m) THEN calc.monthlyPayment ELSE RZero
CostOf(m, b) ==
    IF IsDeferralMonth(m)
    THEN IF params.deferralType = "complete" THEN RZero ELSE InterestOn(b)
    ELSE IF IsRepaymentMonth(m) THEN InterestOn(b) ELSE RZero
\* the insurance of month m, as the claim has it
InsuranceOf(m) ==
    IF 1 <= m /\ RLe(RInt(m), calc.totalLoanMonths)
    THEN params.insuranceCost ELSE RZero
\* the deferral months among the simulated ones
DeferralMonthsSimulated == {m \in 1..totalMonthsElapsed : IsDeferralMonth(m)}
\* all that has been paid at the end, less the monthly payments and the
\* interest-only payments: the insurance accumulated over the horizon
InsuranceAccumulated ==
    RSub(totalPaid,
         RAdd(RMul(calc.monthlyPayment, RInt(Cardinality(PaymentMonths))),
              IF params.deferralType = "partial"
              THEN RMul(InterestOn(calc.principal),
                        RInt(Cardinality(DeferralMonthsSimulated)))
              ELSE RZero))
InsuranceInFull ==
    (variant = "full" /\ pc = "done") =>
        /\ REq(calc.totalInsuranceCost,
               RMul(params.insuranceCost, calc.totalLoanMonths))
        /\ REq(InsuranceAccumulated, calc.totalInsuranceCost)

\* C21: in the full model insuranceCost is added to totalPaid and to
\* totalBorrowingCost in every month m with 1 <= m <= totalLoanMonths, for
\* both deferral types, and in no later month; the insurance accumulated
\* over the horizon is totalInsuranceCost = insuranceCost * totalLoanMonths.
C21_InsuranceEveryLoanMonth ==
    /\ []InsuranceInFull
    /\ [][MonthSimulated =>
              /\ REq(totalPaid',
                     RAdd(RAdd(totalPaid, PaymentOf(totalMonthsElapsed', loanBalance)),
                          InsuranceOf(totalMonthsElapsed')))
              /\ REq(totalBorrowingCost',
                     RAdd(RAdd(totalBorrowingCost, CostOf(totalMonthsElapsed', loanBalance)),
                          InsuranceOf(totalMonthsElapsed')))]_vars
\* a loan of 13.5 months insured at 30 a month: thirteen months of insurance
\* have been paid at the end, 390, and totalInsuranceCost is 405
C21_HalfMonthOfInsurance ==
    /\ variant = "full" /\ pc = "done"
    /\ REq(calc.totalLoanMonths, RDiv(RInt(27), RInt(2)))
    /\ REq(InsuranceAccumulated, RInt(390))
    /\ REq(calc.totalInsuranceCost, RInt(405))

\* C22: in the deferral variant the horizon covers the loan:
\* analysisYears >= ceil(totalLoanMonths / 12), so that every month of the
\* loan, and with it every one of the numberOfPayments payments, has been
\* simulated when the final record is produced.
C22_DeferralHorizonCoversLoan ==
    variant = "deferral" =>
        /\ Computed =>
               RLe(RInt(TotalLoanYears(calc.totalLoanMonths)), calc.analysisYears)
        /\ pc = "done" => RLe(calc.totalLoanMonths, RInt(totalMonthsElapsed))
\* a one-year loan deferred by five months and analysed over one year: the
\* loan lasts seventeen months and twelve are simulated, the final record
\* still owing
C22_FiveMonthsCutOff ==
    /\ variant = "deferral" /\ pc = "done"
    /\ REq(calc.totalLoanMonths, RInt(17))
    /\ REq(calc.analysisYears, ROne)
    /\ totalMonthsElapsed = MonthsPerYear
    /\ calc.monthlyRate.sg = 1
    /\ yearlyData[Len(yearlyData)].loanBalance.sg = 1

\* C23: in the full model, when inflationRate = 0 the real break-even year is
\* the nominal one: both null, or both the same year.
C23_RealBreakEvenIsNominal ==
    (variant = "full" /\ pc = "done" /\ params.inflationRate.sg = 0) =>
        breakEvenYearReal = breakEvenYear
\* no inflation, a positive rate and a complete deferral: the gains cover the
\* cost of the final record in year 1 and totalLoanBorrowingCost in year 2
C23_RealOneYearEarlier ==
    /\ variant = "full" /\ pc = "done" /\ params.inflationRate.sg = 0
    /\ calc.monthlyRate.sg = 1 /\ params.deferralType = "complete"
    /\ breakEvenYearReal = Some(1) /\ breakEvenYear = Some(2)

\* C24: in the full model a breakEvenYear, and a breakEvenYearReal, that is
\* not null is at least 1: the record of year 0 never satisfies the
\* break-even predicate.
C24_BreakEvenAfterYearZero ==
    (variant = "full" /\ pc = "done") =>
        /\ breakEvenYear # Null => breakEvenYear[1] >= 1
        /\ breakEvenYearReal # Null => breakEvenYearReal[1] >= 1
        /\ ~FullProfitable(yearlyData[1])
        /\ ~FullProfitableReal(yearlyData[1])
\* a positive rate and a down payment of the whole amount: nothing is
\* borrowed, the cost is 0, and the record of year 0 gives both years as 0
C24_BreakEvenInYearZero ==
    /\ variant = "full" /\ pc = "done"
    /\ calc.monthlyRate.sg = 1 /\ calc.principal.sg = 0
    /\ params.insuranceCost.sg = 0
    /\ breakEvenYear = Some(0) /\ breakEvenYearReal = Some(0)

\* C25: whatever query string the page is opened with, after the restore and
\* the clamps every numeric parameter lies in its range and deferralType is
\* 'complete' or 'partial', also when the engine runs.
DeferralTypes == {"complete", "partial"}
C25_RestoredInDomain ==
    variant = "full" =>
        /\ Between(RZero, params.loanAmount, RInt(10000000))
        /\ Between(RZero, params.downPayment, params.loanAmount)
        /\ Between(RZero, params.interestRate, RInt(20))
        /\ Between(ROne, params.loanTermYears, RInt(40))
        /\ Between(RZero, params.deferralMonths,
                   RSub(RMul(params.loanTermYears, RInt(MonthsPerYear)), ROne))
        /\ Between(RZero, params.insuranceCost, RInt(10000))
        /\ Between(RZero, params.investmentRate, RInt(30))
        /\ Between(RZero, params.investmentVolatility, RInt(100))
        /\ Between(RZero, params.additionalYears, RInt(30))
        /\ Between(RZero, params.inflationRate, RInt(20))
        /\ params.deferralType \in DeferralTypes
\* the page was opened with deferralType=none and deferralMonths=5, and the
\* projection has run: five deferral months that are not capitalized
C25_DeferralTypeNone ==
    /\ variant = "full" /\ pc = "done"
    /\ params.deferralType = "none"
    /\ REq(params.deferralMonths, RInt(5))
    /\ REq(calc.principalAfterDeferral, calc.principal)
    /\ Len(yearlyData) > 1

\* the scenarios of the full page are computed
Projected == variant = "full" /\ pc = "done" /\ ~NotProjected
\* the three values of a scenario record are in order and not negative
ScenarioOrdered(d) ==
    /\ RLe(RZero, d.worst) /\ RLe(d.worst, d.expected) /\ RLe(d.expected, d.best)
\* the three values of a scenario record are one value
ScenarioFlat(d) == REq(d.worst, d.expected) /\ REq(d.expected, d.best)

\* C26: in the full model the scenario series has a record for every year
\* 0..analysisYears with 0 <= worst <= expected <= best; the three values are
\* the principal at year 0, and they are equal at every year when
\* investmentVolatility is 0.
C26_ScenariosOrdered ==
    Projected =>
        /\ Len(scenarioYearlyData) = LoopYears(calc.analysisYears) + 1
        /\ \A i \in 1..Len(scenarioYearlyData) :
              /\ scenarioYearlyData[i].year = i - 1
              /\ ScenarioOrdered(scenarioYearlyData[i])
              /\ params.investmentVolatility.sg = 0 => ScenarioFlat(scenarioYearlyData[i])
        /\ REq(scenarioYearlyData[1].worst, calc.principal)
        /\ ScenarioFlat(scenarioYearlyData[1])
\* a worst case at a negative rate: it ends below the principal, which the
\* expected case and the best case keep or exceed
C26_WorstCaseLoses ==
    /\ Projected
    /\ WorstCaseReturn(params).sg = -1
    /\ Len(scenarioYearlyData) = 3
    /\ RLt(RZero, scenarioYearlyData[3].worst)
    /\ RLt(scenarioYearlyData[3].worst, scenarioYearlyData[2].worst)
    /\ RLt(scenarioYearlyData[2].worst, calc.principal)
    /\ RLe(calc.principal, scenarioYearlyData[3].expected)
    /\ RLt(scenarioYearlyData[3].expected, scenarioYearlyData[3].best)

\* C27: in the full model the expected scenario is the yearly projection: for
\* every year y in 0..analysisYears scenarioYearlyData[y].expected =
\* yearlyData[y].investmentValue, and scenarioCalculation(investmentRate) is the
\* final investment value, the investmentValue of the last record.
C27_ExpectedIsProjection ==
    Projected =>
        /\ Len(scenarioYearlyData) = Len(yearlyData)
        /\ \A i \in 1..Len(yearlyData) :
              /\ scenarioYearlyData[i].year = yearlyData[i].year
              /\ REq(scenarioYearlyData[i].expected, yearlyData[i].investmentValue)
        /\ REq(ScenarioCalculation(params.investmentRate, calc.principal, calc.analysisYears),
               FinalRecord.investmentValue)
\* two years projected at a positive rate with a volatility: the expected
\* value of the last year is the final investment value, between the two
\* case values
C27_ExpectedBetweenCases ==
    /\ Projected
    /\ Len(yearlyData) = 3
    /\ params.investmentRate.sg = 1 /\ params.investmentVolatility.sg = 1
    /\ REq(scenarioYearlyData[3].expected, FinalRecord.investmentValue)
    /\ RLt(worstCaseValue, FinalRecord.investmentValue)
    /\ RLt(FinalRecord.investmentValue, bestCaseValue)
    /\ REq(bestCaseValue, scenarioYearlyData[3].best)
    /\ REq(worstCaseValue, scenarioYearlyData[3].worst)

\* x is a whole number
IsWhole(x) == REq(RInt(MathCeil(x)), x)
\* the record r holds the values the locals of the projector have now
SnapshotOfNow(r) ==
    /\ REq(r.investmentValue, investmentValue)
    /\ REq(r.totalPaid, totalPaid)
    /\ REq(r.totalBorrowingCost, totalBorrowingCost)
    /\ REq(r.investmentValueReal, RDiv(investmentValue, cumulativeInflationFactor))
    /\ r.isLoanActive => REq(r.loanBalance, loanBalance)

\* C28: in the full model with whole loanTermYears and additionalYears,
\* yearlyData ends with exactly analysisYears + 1 records, the years 0, 1, ...,
\* analysisYears in increasing order, and the record of year y is the snapshot
\* of the projector's values after exactly 12 * y simulated months.
C28_OneRecordPerYear ==
    (/\ variant = "full" /\ pc \in {"loop", "find", "done"}
     /\ IsWhole(params.loanTermYears) /\ IsWhole(params.additionalYears)) =>
        /\ \A i \in Years : yearlyData[i].year = i - 1
        /\ Len(yearlyData) = year
        /\ totalMonthsElapsed = MonthsPerYear * (year - 1) + month
        /\ month = 0 =>
               /\ totalMonthsElapsed = MonthsPerYear * FinalRecord.year
               /\ SnapshotOfNow(FinalRecord)
        /\ pc \in {"find", "done"} =>
               /\ month = 0
               /\ REq(RInt(Len(yearlyData)), RAdd(calc.analysisYears, ROne))
               /\ REq(RInt(FinalRecord.year), calc.analysisYears)
\* a finished projection of a two-year loan and one more year: four records,
\* the last one taken after 36 months
C28_FourRecords ==
    /\ variant = "full" /\ pc = "done"
    /\ REq(params.loanTermYears, RInt(2)) /\ REq(params.additionalYears, ROne)
    /\ Len(yearlyData) = 4 /\ FinalRecord.year = 3
    /\ totalMonthsElapsed = 36
    /\ SnapshotOfNow(FinalRecord)

\* the flag f of the records never comes back once it is false
FlagMonotone(f) ==
    \A i \in Years : \A j \in Years :
        (i < j /\ ~yearlyData[i][f]) => ~yearlyData[j][f]

\* C29: in the records of the full model isDeferralPeriod implies
\* isLoanActive, neither flag comes back once a record has it false, and
\* isLoanActive is true exactly for the records with year <= loanTermYears.
C29_RecordFlags ==
    (variant = "full" /\ Computed) =>
        /\ \A i \in Years :
              /\ yearlyData[i].isDeferralPeriod => yearlyData[i].isLoanActive
              /\ yearlyData[i].isLoanActive <=>
                     RLe(RInt(yearlyData[i].year), params.loanTermYears)
        /\ FlagMonotone("isLoanActive")
        /\ FlagMonotone("isDeferralPeriod")
\* a projection whose records go through the three phases: a year of
\* deferral, a year of repayment, a year after the loan
C29_ThreePhases ==
    /\ variant = "full" /\ pc = "done"
    /\ \E i \in Years : \E j \in Years : \E k \in Years :
          /\ 1 < i /\ i < j /\ j < k
          /\ yearlyData[i].isDeferralPeriod /\ yearlyData[i].isLoanActive
          /\ ~yearlyData[j].isDeferralPeriod /\ yearlyData[j].isLoanActive
          /\ ~yearlyData[k].isDeferralPeriod /\ ~yearlyData[k].isLoanActive

\* the simple page computed from the values of a full page
AfterFullPage == variant = "simple" /\ shared # Null /\ Computed
\* the record s of the simple page and the record f of the full page agree on
\* the loan
SameLoanSide(s, f, downPayment) ==
    /\ s.year = f.year
    /\ REq(s.loanBalance, f.loanBalance)
    /\ s.isLoanActive = f.isLoanActive
    /\ REq(s.totalPaid, RAdd(f.totalPaid, downPayment))

\* C30: with deferralMonths = 0, insuranceCost = 0 and a whole loanTermYears,
\* the full model and the simple model given the same loanAmount, downPayment,
\* interestRate, loanTermYears and horizon have the same monthlyPayment,
\* totalInterest and totalCost, and for every year y >= 1 the same loanBalance
\* and isLoanActive, with simple totalPaid = full totalPaid + downPayment.
C30_NeutralFullIsSimple ==
    AfterFullPage =>
        /\ REq(calc.monthlyPayment, shared[1].calc.monthlyPayment)
        /\ REq(calc.totalInterest, shared[1].calc.totalInterest)
        /\ REq(calc.totalCost, shared[1].calc.totalCost)
        /\ \A i \in Years :
              SameLoanSide(yearlyData[i], shared[1].yearlyData[i + 1], params.downPayment)
        /\ pc = "done" => Len(yearlyData) + 1 = Len(shared[1].yearlyData)
\* both pages computed for a two-year loan at a positive rate with a down
\* payment and one more year: a balance left after year 1, none after year 3
C30_BothPagesComputed ==
    /\ AfterFullPage /\ pc = "done"
    /\ shared[1].params.deferralMonths.sg = 0
    /\ shared[1].params.insuranceCost.sg = 0
    /\ calc.monthlyPayment.sg = 1 /\ params.downPayment.sg = 1
    /\ Len(yearlyData) = 3
    /\ yearlyData[1].loanBalance.sg = 1 /\ yearlyData[1].isLoanActive
    /\ ~yearlyData[3].isLoanActive
    /\ RLt(params.downPayment, yearlyData[1].totalPaid)
====
